---- MODULE Spec2Model ----
(***************************************************************************)
(* A model of the claude-usage status bar extension: the acquisition of    *)
(* the `claude /usage` transcript (runClaudeUsage / readUsageData) and the *)
(* transcript parser (parseCliOutput and what it calls).                   *)
(*                                                                         *)
(* Text is modelled at the granularity of lexical tokens.  A transcript is *)
(* a sequence of tokens; a token is a record [k, s, n]:                    *)
(*   k = "w"    a word or punctuation mark s, in lower case (every regular *)
(*              expression of the source that reads words carries /i)      *)
(*   k = "n"    a run of decimal digits with value n                       *)
(*   k = "tz"   a parenthesised IANA zone name s, e.g. (America/Toronto)   *)
(*   k = "nl"   "\n"          k = "cr"   "\r"                              *)
(*   k = "sp"   one space character                                        *)
(*   k = "esc"  an ANSI escape sequence other than cursor-forward          *)
(*   k = "cuf"  the cursor-forward sequence ESC [ n C (n = -1: no digits)  *)
(*   k = "ctl"  a control character such as BEL                            *)
(* Two neighbouring tokens of a line are separated by optional blanks, so  *)
(* that `\s*` and `\s+` of the source's patterns are the token boundaries. *)
(***************************************************************************)
EXTENDS Integers, Sequences, FiniteSets, TLC

VARIABLES
    \* ---- parser (parseCliOutput) ----
    rawOutput,      \* the text handed to parseCliOutput
    now,            \* Date.now() in seconds since the epoch
    localOffset,    \* offset of the system time zone, minutes east of UTC
    ppc,            \* "input" before the call, "parsed" after it
    result,         \* the ReadResult returned by parseCliOutput
    debugFiles,     \* the three claude-usage-debug-*.txt files: <<>> absent, <<c>> content c
    hourCycle,      \* how the runtime's Intl renders hour 0 under hour12: false
    \* ---- acquisition (readUsageData / runClaudeUsage) ----
    claudeJson,     \* the file ~/.claude.json
    env,            \* platform and file system: isWindows, scriptExists, claudeExists, trusted
    pc,             \* position of readUsageData
    child,          \* state of the spawned child process
    output,         \* `output`, the accumulated buffer
    settled,        \* `settled`
    promise,        \* the promise of runClaudeUsage: pending, resolved, rejected
    timer,          \* the hard timeout timer: "pending", "fired", "cleared"
    earlyKillTimer, \* the grace timer: "undefined", "pending", "fired", "cleared"
    clock,          \* milliseconds since the spawn
    graceDue,       \* clock value at which the grace timer expires
    chunks,         \* number of data chunks delivered so far
    sigterms,       \* number of child.kill("SIGTERM") calls
    settleCalls,    \* number of calls of settle()
    readResult,     \* the ReadResult returned by readUsageData
    \* ---- a call of one of the pure functions ----
    callee,         \* the function called, "" when none is
    arg,            \* its argument
    ret,            \* <<>> before it returns, <<v>> once it has returned v
    \* ---- StatusBarManager ----
    lifecycle,          \* "constructed", "active" (after activate), "disposed"
    wallClock,          \* Date.now(), in milliseconds
    trusted,            \* isWorkspaceTrusted(workspacePath)
    intervalTimer,      \* this.timer: <<>> undefined, <<due>> set and next due then
    lastManualRefresh,  \* this.lastManualRefresh
    lastDisplayText,    \* this.lastDisplayText
    lastResult,         \* this.lastResult, kind "undefined" before the first
    statusBarItem,      \* text, tooltip and backgroundColor of the status bar item
    refreshes,          \* the calls of refresh() awaiting readUsageData
    started,            \* number of calls of refresh() so far
    dialogs             \* the kinds of the error dialogs awaiting the user

parserVars == <<rawOutput, now, localOffset, ppc, result, debugFiles, hourCycle>>
acqVars == <<claudeJson, env, pc, child, output, settled, promise, timer, earlyKillTimer,
             clock, graceDue, chunks, sigterms, settleCalls, readResult>>
callVars == <<callee, arg, ret>>
mgrVars == <<lifecycle, wallClock, trusted, intervalTimer, lastManualRefresh, lastDisplayText,
             lastResult, statusBarItem, refreshes, started, dialogs>>
vars == <<rawOutput, now, localOffset, ppc, result, debugFiles, hourCycle,
          claudeJson, env, pc, child, output, settled, promise, timer, earlyKillTimer,
          clock, graceDue, chunks, sigterms, settleCalls, readResult,
          callee, arg, ret,
          lifecycle, wallClock, trusted, intervalTimer, lastManualRefresh, lastDisplayText,
          lastResult, statusBarItem, refreshes, started, dialogs>>

(***************************************************************************)
(* Tokens                                                                  *)
(***************************************************************************)
W(s) == [k |-> "w", s |-> s, n |-> 0]
N(i) == [k |-> "n", s |-> "", n |-> i]
TZ(s) == [k |-> "tz", s |-> s, n |-> 0]
NL == [k |-> "nl", s |-> "", n |-> 0]
CR == [k |-> "cr", s |-> "", n |-> 0]
SP == [k |-> "sp", s |-> "", n |-> 0]
ESC(s) == [k |-> "esc", s |-> s, n |-> 0]
CUF(i) == [k |-> "cuf", s |-> "", n |-> i]
CTL == [k |-> "ctl", s |-> "", n |-> 0]

Min(a, b) == IF a <= b THEN a ELSE b
Max(a, b) == IF a >= b THEN a ELSE b

MinOfSet(S) == CHOOSE x \in S : \A y \in S : x <= y

\* Body applied to the value v: `const x = v` followed by the code that reads x
With(v, Body(_)) == Body(v)

RECURSIVE Spaces(_)
Spaces(c) == IF c <= 0 THEN <<>> ELSE <<SP>> \o Spaces(c - 1)

(***************************************************************************)
(* stripAnsi                                                               *)
(***************************************************************************)
CursorFwdCap == 100

\* raw.replace(CURSOR_FWD_RE, (_, n) => " ".repeat(Math.min(parseInt(n || "1"), 100)))
RECURSIVE ExpandCursorFwd(_)
ExpandCursorFwd(raw) ==
    IF raw = <<>> THEN <<>>
    ELSE LET t == Head(raw)
         IN  (IF t.k = "cuf"
              THEN Spaces(Min(IF t.n < 0 THEN 1 ELSE t.n, CursorFwdCap))
              ELSE <<t>>) \o ExpandCursorFwd(Tail(raw))

NotEsc(t) == t.k \notin {"esc", "cuf"}
CrToNl(t) == IF t.k = "cr" THEN NL ELSE t
NotCtl(t) == t.k # "ctl"

stripAnsi(raw) ==
    LET s1 == ExpandCursorFwd(raw)
        s2 == SelectSeq(s1, NotEsc)
        s3 == [i \in 1..Len(s2) |-> CrToNl(s2[i])]
        s4 == SelectSeq(s3, NotCtl)
    IN  s4

\* stripped.split(/\r?\n/): the lines between the newlines, empty ones kept
RECURSIVE SplitLinesFrom(_, _)
SplitLinesFrom(s, cur) ==
    IF s = <<>> THEN <<cur>>
    ELSE IF Head(s).k = "nl" THEN <<cur>> \o SplitLinesFrom(Tail(s), <<>>)
    ELSE SplitLinesFrom(Tail(s), Append(cur, Head(s)))

SplitLines(s) == SplitLinesFrom(s, <<>>)

\* lines.join("\n")
RECURSIVE JoinLines(_)
JoinLines(lines) ==
    IF lines = <<>> THEN <<>>
    ELSE IF Len(lines) = 1 THEN lines[1]
    ELSE lines[1] \o <<NL>> \o JoinLines(Tail(lines))

(***************************************************************************)
(* Pattern matching on tokens.  Toks drops the blanks: the patterns of the *)
(* source allow \s* or \s+ wherever two tokens meet.                       *)
(***************************************************************************)
NotBlank(t) == t.k \notin {"sp", "nl"}
Toks(text) == SelectSeq(text, NotBlank)

IsWord(t, s) == t.k = "w" /\ t.s = s
IsWordIn(t, S) == t.k = "w" /\ t.s \in S
IsNum(t) == t.k = "n"

\* the word sequence ws occurs in toks at position i
WordsAt(toks, i, ws) ==
    /\ i + Len(ws) - 1 <= Len(toks)
    /\ \A j \in 1..Len(ws) : IsWord(toks[i + j - 1], ws[j])

HasWords(toks, ws) == \E i \in 1..Len(toks) : WordsAt(toks, i, ws)
HasAnyWords(toks, S) == \E ws \in S : HasWords(toks, ws)

\* the token at position i, or a token that matches nothing past the end
NoTok == [k |-> "none", s |-> "", n |-> 0]
Tok(toks, i) == IF i \in 1..Len(toks) THEN toks[i] ELSE NoTok

(***************************************************************************)
(* Account and error classifier                                            *)
(***************************************************************************)
AUTH_ERROR_CODES == {"setup_required", "not_logged_in", "token_expired", "no_subscription"}

MsgSetupRequired ==
    "Claude CLI setup required. Run 'claude' in a terminal to complete first-time setup."
MsgTokenExpired == "Claude authentication token expired. Run 'claude' to re-authenticate."
MsgNotLoggedIn == "Not logged in to Claude. Run 'claude' to authenticate."
MsgNoSubscription == "No active Claude subscription found."

\* The table AUTH_PATTERNS; `words` are the token sequences its pattern accepts.
AUTH_PATTERNS == <<
    [words |-> {<<"let's", "get", "started">>, <<"lets", "get", "started">>},
     code |-> "setup_required", message |-> MsgSetupRequired],
    [words |-> {<<"token", "expired">>, <<"session", "expired">>,
                <<"token", "has", "expired">>, <<"session", "has", "expired">>},
     code |-> "token_expired", message |-> MsgTokenExpired],
    [words |-> {<<a, b>> : a \in {"signin", "login", "authenticate"}, b \in {"required"}}
               \cup {<<a, b, c>> : a \in {"signin", "login", "authenticate"},
                                   b \in {"to"}, c \in {"continue", "use"}}
               \cup {<<a, b, c>> : a \in {"sign", "log"}, b \in {"in"}, c \in {"required"}}
               \cup {<<a, b, c, d>> : a \in {"sign", "log"}, b \in {"in"},
                                      c \in {"to"}, d \in {"continue", "use"}},
     code |-> "not_logged_in", message |-> MsgNotLoggedIn],
    [words |-> {<<"no", "subscription">>, <<"no", "active", "subscription">>},
     code |-> "no_subscription", message |-> MsgNoSubscription],
    [words |-> {<<"claude.ai/login">>},
     code |-> "not_logged_in", message |-> MsgNotLoggedIn] >>

NoAuthError == [Code |-> "", Message |-> ""]

\* the entries of AUTH_PATTERNS whose pattern matches the joined text
AuthMatches(lines) ==
    LET text == Toks(JoinLines(lines))
    IN  {p \in 1..Len(AUTH_PATTERNS) : HasAnyWords(text, AUTH_PATTERNS[p].words)}

detectAuthError(lines) ==
    LET M == AuthMatches(lines)
    IN  IF M = {} THEN NoAuthError
        ELSE LET p == AUTH_PATTERNS[MinOfSet(M)]
             IN  [Code |-> p.code, Message |-> p.message]

\* plan names in the order parseAccountType tests them on a line
PlanNames == <<"max", "pro", "team", "enterprise", "api", "free">>
PlanLabel(p) ==
    CASE p = "max" -> "Claude Max" [] p = "pro" -> "Claude Pro"
      [] p = "team" -> "Claude Team" [] p = "enterprise" -> "Claude Enterprise"
      [] p = "api" -> "Claude API" [] OTHER -> "Claude Free"

LinePlans(line) ==
    {p \in 1..Len(PlanNames) : HasWords(Toks(line), <<"claude", PlanNames[p]>>)}

parseAccountType(lines) ==
    LET L == {i \in 1..Len(lines) : LinePlans(lines[i]) # {}}
    IN  IF L = {} THEN "unknown"
        ELSE PlanLabel(PlanNames[MinOfSet(LinePlans(lines[MinOfSet(L)]))])

\* an e-mail address is one token of kind "w" whose text holds an "@"
Emails == {"user@example.com"}
LineEmail(line) ==
    LET toks == Toks(line)
        I1 == {i \in 1..Len(toks) : WordsAt(toks, i, <<".", "claude">>)
                                    /\ IsWordIn(Tok(toks, i + 2), {"pro", "max"})
                                    /\ IsWord(Tok(toks, i + 3), ".")
                                    /\ IsWordIn(Tok(toks, i + 4), Emails)}
        I2 == {i \in 1..Len(toks) : IsWordIn(Tok(toks, i), {"email:", "account:"})
                                    /\ IsWordIn(Tok(toks, i + 1), Emails)}
    IN  IF I1 # {} THEN toks[MinOfSet(I1) + 4].s
        ELSE IF I2 # {} THEN toks[MinOfSet(I2) + 1].s
        ELSE ""

parseEmail(lines) ==
    LET L == {i \in 1..Len(lines) : LineEmail(lines[i]) # ""}
    IN  IF L = {} THEN "" ELSE LineEmail(lines[MinOfSet(L)])

(***************************************************************************)
(* Time resolver.  Instants are seconds since the epoch; resets_at, an ISO *)
(* string in the source, is <<>> for "" and <<t>> for the instant t.  The  *)
(* system zone and the IANA zones are fixed offsets from UTC.              *)
(***************************************************************************)
\* Date's calendar: days since 1970-01-01 of the civil date y-m-d (m in 1..12)
DaysFromCivil(y, m, d) ==
    LET yy == IF m <= 2 THEN y - 1 ELSE y
        era == yy \div 400
        yoe == yy - era * 400
        mp == IF m > 2 THEN m - 3 ELSE m + 9
        doy == (153 * mp + 2) \div 5 + d - 1
        doe == yoe * 365 + yoe \div 4 - yoe \div 100 + doy
    IN  era * 146097 + doe - 719468

\* the civil date of day number z, month 0-indexed as Date.getMonth()
CivilFromDays(z) ==
    With(z + 719468, LAMBDA zz :
    With(zz \div 146097, LAMBDA era :
    With(zz - era * 146097, LAMBDA doe :
    With((doe - doe \div 1460 + doe \div 36524 - doe \div 146096) \div 365, LAMBDA yoe :
    With(doe - (365 * yoe + yoe \div 4 - yoe \div 100), LAMBDA doy :
    With((5 * doy + 2) \div 153, LAMBDA mp :
    With(IF mp < 10 THEN mp + 3 ELSE mp - 9, LAMBDA m :
        [year |-> yoe + era * 400 + (IF m <= 2 THEN 1 ELSE 0),
         month |-> m - 1,
         day |-> doy - (153 * mp + 2) \div 5 + 1])))))))

\* the calendar reading of instant t in a zone offMin minutes east of UTC
CivilAt(t, offMin) ==
    With(t + offMin * 60, LAMBDA ls :
    With(CivilFromDays(ls \div 86400), LAMBDA c :
    With(ls % 86400, LAMBDA r :
        [year |-> c.year, month |-> c.month, day |-> c.day,
         hour |-> r \div 3600, minute |-> (r % 3600) \div 60])))

\* new Date(y, mo, d, h, mi, 0).getTime(), in seconds, in the system zone loc;
\* day, hour and minute past their range carry over as Date does
DateLocal(y, mo, d, h, mi, loc) ==
    (DaysFromCivil(y, mo + 1, 1) + d - 1) * 86400 + h * 3600 + mi * 60 - loc * 60

\* the zones Intl.DateTimeFormat knows here; any other name makes it throw
TzOffsetMin(tz) ==
    CASE tz = "America/Toronto" -> -300
      [] tz = "Asia/Tokyo" -> 540
      [] OTHER -> 0
KnownZones == {"America/Toronto", "Asia/Tokyo"}

\* new Date(`${monthStr} 1, 2000`).getMonth(); -1 stands for NaN
MonthNames == <<"jan", "feb", "mar", "apr", "may", "jun",
                "jul", "aug", "sep", "oct", "nov", "dec">>
MonthIndex(w) ==
    IF \E i \in 1..12 : MonthNames[i] = w
    THEN (CHOOSE i \in 1..12 : MonthNames[i] = w) - 1
    ELSE -1

toHour24(hour, ampm) ==
    IF ampm = "pm" /\ hour < 12 THEN hour + 12
    ELSE IF ampm = "am" /\ hour = 12 THEN 0
    ELSE hour

\* Intl.DateTimeFormat("en-US", {hour12: false, ...}).formatToParts: the
\* resolved hour cycle depends on the runtime's ECMA-402 edition.  Under "h23"
\* the hour after midnight is "00"; under "h24" it is "24", with the date
\* parts those of the day that has just begun.
HourCycles == {"h23", "h24"}
getNowInTz(tz, t) ==
    With(CivilAt(t, TzOffsetMin(tz)), LAMBDA c :
        [year |-> c.year, month |-> c.month, day |-> c.day,
         hour |-> IF c.hour = 0 /\ hourCycle = "h24" THEN 24 ELSE c.hour,
         minute |-> c.minute])

Thrown == [thrown |-> TRUE, found |-> FALSE, resets_at |-> <<>>, time_remaining_seconds |-> 0]
NotFound == [thrown |-> FALSE, found |-> FALSE, resets_at |-> <<>>, time_remaining_seconds |-> 0]

\* tz = "" stands for undefined.  Throws (RangeError) for a zone Intl does
\* not know and for a NaN month, whose Date has no ISO string.
computeDiffSeconds(targetY, targetMo, targetD, targetH, targetMin, tz, t, loc) ==
    IF tz # "" /\ tz \notin KnownZones THEN Thrown
    ELSE IF targetMo < 0 THEN Thrown
    ELSE With(DateLocal(targetY, targetMo, targetD, targetH, targetMin, loc), LAMBDA targetAsLocal :
         With(IF tz # "" THEN getNowInTz(tz, t) ELSE CivilAt(t, loc), LAMBDA c :
         With(DateLocal(c.year, c.month, c.day, c.hour, c.minute, loc), LAMBDA nowAsLocal :
         With(targetAsLocal - nowAsLocal, LAMBDA diff :
             [thrown |-> FALSE, found |-> TRUE,
              resets_at |-> <<t + diff>>,
              time_remaining_seconds |-> Max(0, diff)]))))

\* formatDuration with each unit rounded to the nearest instead of floored
formatDurationRounded(totalSeconds) ==
    LET days == (totalSeconds + 43200) \div 86400
        hours == ((totalSeconds % 86400) + 1800) \div 3600
        mins == ((totalSeconds % 3600) + 30) \div 60
    IN  IF days > 0
        THEN (IF hours > 0 THEN ToString(days) \o "d " \o ToString(hours) \o "h"
              ELSE ToString(days) \o "d")
        ELSE IF hours > 0
        THEN (IF mins > 0 THEN ToString(hours) \o "h" \o ToString(mins) \o "m"
              ELSE ToString(hours) \o "h")
        ELSE IF mins > 0 THEN ToString(mins) \o "m"
        ELSE "< 1m"
formatDuration(totalSeconds) ==
    LET days == totalSeconds \div 86400
        hours == (totalSeconds % 86400) \div 3600
        mins == (totalSeconds % 3600) \div 60
    IN  IF days > 0
        THEN (IF hours > 0 THEN ToString(days) \o "d " \o ToString(hours) \o "h"
              ELSE ToString(days) \o "d")
        ELSE IF hours > 0
        THEN (IF mins > 0 THEN ToString(hours) \o "h" \o ToString(mins) \o "m"
              ELSE ToString(hours) \o "h")
        ELSE IF mins > 0 THEN ToString(mins) \o "m"
        ELSE "< 1m"

\* words a number may be followed by to count as days, hours, minutes:
\* RELATIVE_DAYS, RELATIVE_HOURS and RELATIVE_MINS accept any word that
\* begins with d, h, m (the optional rest of the unit name is not anchored)
DayWords == {"d", "day", "days", "dec"}
HourWords == {"h", "hr", "hrs", "hour", "hours"}
MinWords == {"m", "min", "mins", "minute", "minutes", "mar", "may"}

\* line.match(RELATIVE_x): the number of the first match, -1 without a match
FirstUnit(toks, Unit) ==
    LET I == {i \in 1..Len(toks) : IsNum(toks[i]) /\ IsWordIn(Tok(toks, i + 1), Unit)}
    IN  IF I = {} THEN -1 ELSE toks[MinOfSet(I)].n

\* line.match(TZ_RE)?.[1], "" for undefined
LineTz(toks) ==
    LET I == {i \in 1..Len(toks) : toks[i].k = "tz"}
    IN  IF I = {} THEN "" ELSE toks[MinOfSet(I)].s

AmPm == {"am", "pm"}
\* words of three to nine word characters, which (\w{3,9}) of DATE_TIME_RE takes
ShortWords == {"at", "in", "am", "pm", "d", "h", "m", "hr", "no", "to", "%", ":", ",", ".", "/", "$"}
IsMonthWord(t) == t.k = "w" /\ t.s \notin ShortWords

\* DATE_TIME_RE matched with the month word at position i
DateTimeAt(toks, i) ==
    With(IsWord(Tok(toks, i + 2), ","), LAMBDA hasComma :
    With(IF hasComma THEN i + 3 ELSE i + 2, LAMBDA jy :
    With(IsNum(Tok(toks, jy)) /\ Tok(toks, jy).n \in 1000..9999, LAMBDA hasYear :
    With(IF hasYear THEN jy + 1 ELSE i + 2, LAMBDA j2 :
    With(IF IsWord(Tok(toks, j2), "at") THEN j2 + 1 ELSE j2, LAMBDA j3 :
    With(IsWord(Tok(toks, j3 + 1), ":") /\ IsNum(Tok(toks, j3 + 2)), LAMBDA hasMin :
    With(IF hasMin THEN j3 + 3 ELSE j3 + 1, LAMBDA j4 :
        [ok |-> /\ IsMonthWord(Tok(toks, i))
                /\ IsNum(Tok(toks, i + 1)) /\ Tok(toks, i + 1).n < 100
                /\ (hasComma => hasYear)
                /\ IsNum(Tok(toks, j3)) /\ Tok(toks, j3).n < 100
                /\ IsWordIn(Tok(toks, j4), AmPm),
         monthStr |-> Tok(toks, i).s,
         day |-> Tok(toks, i + 1).n,
         hasYear |-> hasYear,
         year |-> Tok(toks, jy).n,
         hour |-> Tok(toks, j3).n,
         min |-> IF hasMin THEN Tok(toks, j3 + 2).n ELSE 0,
         ampm |-> Tok(toks, j4).s])))))))

\* TIME_ONLY_RE matched with the hour digits at position i; of a longer run
\* of digits (\d{1,2}) takes the last two
TimeOnlyAt(toks, i) ==
    With(IsWord(Tok(toks, i + 1), ":") /\ IsNum(Tok(toks, i + 2))
             /\ IsWordIn(Tok(toks, i + 3), AmPm), LAMBDA hasMin :
    With(IF hasMin THEN i + 3 ELSE i + 1, LAMBDA j :
        [ok |-> IsNum(Tok(toks, i)) /\ IsWordIn(Tok(toks, j), AmPm),
         hour |-> Tok(toks, i).n % 100,
         min |-> IF hasMin THEN Tok(toks, i + 2).n ELSE 0,
         ampm |-> Tok(toks, j).s]))

parseAbsoluteTime(line, t, loc) ==
    With(Toks(line), LAMBDA toks :
    With(LineTz(toks), LAMBDA tz :
    With({i \in 1..Len(toks) : DateTimeAt(toks, i).ok}, LAMBDA D :
    With({i \in 1..Len(toks) : TimeOnlyAt(toks, i).ok}, LAMBDA T :
        IF D # {}
        THEN With(DateTimeAt(toks, MinOfSet(D)), LAMBDA dm :
             With(IF dm.hasYear THEN dm.year ELSE CivilAt(t, loc).year, LAMBDA y :
             With(toHour24(dm.hour, dm.ampm), LAMBDA h :
                 computeDiffSeconds(y, MonthIndex(dm.monthStr), dm.day, h, dm.min, tz, t, loc))))
        ELSE IF T # {}
        THEN With(TimeOnlyAt(toks, MinOfSet(T)), LAMBDA tm :
             With(toHour24(tm.hour, tm.ampm), LAMBDA h :
                 IF tz # "" /\ tz \notin KnownZones THEN Thrown
                 ELSE With(IF tz # "" THEN getNowInTz(tz, t) ELSE CivilAt(t, loc), LAMBDA c :
                      With(computeDiffSeconds(c.year, c.month, c.day, h, tm.min, tz, t, loc),
                           LAMBDA r1 :
                          IF r1.time_remaining_seconds <= 0
                          THEN computeDiffSeconds(c.year, c.month, c.day + 1, h, tm.min,
                                                  tz, t, loc)
                          ELSE r1))))
        ELSE NotFound))))

\* PERCENT_RE: <digits> % used|left; (\d{1,3}) takes the last three digits
PercentWords == {"used", "left"}
PercentAt(toks, i) ==
    IsNum(Tok(toks, i)) /\ IsWord(Tok(toks, i + 1), "%") /\ IsWordIn(Tok(toks, i + 2), PercentWords)
PERCENT_RE(text) == \E i \in 1..Len(Toks(text)) : PercentAt(Toks(text), i)

\* /rese\s*t?\s*s|renew/i
ResetWords == {<<"resets">>, <<"reset", "s">>, <<"rese", "ts">>, <<"rese", "t", "s">>,
               <<"rese", "s">>, <<"renew">>, <<"renews">>}
IsResetLine(line) == HasAnyWords(Toks(line), ResetWords)

\* /\d{1,2}\s*(?:am|pm)/i
HasClockTime(line) ==
    LET toks == Toks(line)
    IN  \E i \in 1..Len(toks) : IsNum(toks[i]) /\ IsWordIn(Tok(toks, i + 1), AmPm)

UnresolvedAsError ==
    [thrown |-> TRUE, resets_at |-> <<>>, time_remaining_seconds |-> 0,
     time_remaining_human |-> ""]
Unresolved ==
    [thrown |-> FALSE, resets_at |-> <<>>, time_remaining_seconds |-> 0,
     time_remaining_human |-> ""]
ResetThrown ==
    [thrown |-> TRUE, resets_at |-> <<>>, time_remaining_seconds |-> 0,
     time_remaining_human |-> ""]
WithHumanMissing(abs) ==
    [thrown |-> FALSE, resets_at |-> abs.resets_at,
     time_remaining_seconds |-> abs.time_remaining_seconds,
     time_remaining_human |-> ""]
WithHuman(abs) ==
    [thrown |-> FALSE, resets_at |-> abs.resets_at,
     time_remaining_seconds |-> abs.time_remaining_seconds,
     time_remaining_human |-> formatDuration(abs.time_remaining_seconds)]

\* totalSeconds of the relative branch; a unit without a match counts 0
RelativeSecondsHoursAsMinutes(dM, hM, mM) ==
    Max(dM, 0) * 86400 + Max(hM, 0) * 60 + Max(mM, 0) * 60
RelativeSeconds(dM, hM, mM) ==
    Max(dM, 0) * 86400 + Max(hM, 0) * 3600 + Max(mM, 0) * 60

\* the lines the second loop passes over: the percentage line itself
NothingSkippedInSecondPass(line) == FALSE
SkippedInSecondPass(line) == PERCENT_RE(line)

\* the second loop of parseResetTime, from line k on
RECURSIVE SecondPass(_, _, _, _)
SecondPass(contextLines, k, t, loc) ==
    IF k > Len(contextLines) THEN Unresolved
    ELSE IF ~HasClockTime(contextLines[k]) THEN SecondPass(contextLines, k + 1, t, loc)
    ELSE IF SkippedInSecondPass(contextLines[k]) THEN SecondPass(contextLines, k + 1, t, loc)
    ELSE With(parseAbsoluteTime(contextLines[k], t, loc), LAMBDA abs :
             IF abs.thrown THEN ResetThrown
             ELSE IF abs.found THEN WithHuman(abs)
             ELSE SecondPass(contextLines, k + 1, t, loc))

\* the first loop of parseResetTime, from line k on
RECURSIVE FirstPass(_, _, _, _)
FirstPass(contextLines, k, t, loc) ==
    IF k > Len(contextLines) THEN SecondPass(contextLines, 1, t, loc)
    ELSE IF ~IsResetLine(contextLines[k]) THEN FirstPass(contextLines, k + 1, t, loc)
    ELSE With(Toks(contextLines[k]), LAMBDA toks :
         With(FirstUnit(toks, DayWords), LAMBDA dM :
         With(FirstUnit(toks, HourWords), LAMBDA hM :
         With(FirstUnit(toks, MinWords), LAMBDA mM :
             IF dM >= 0 \/ hM >= 0 \/ mM >= 0
             THEN With(RelativeSeconds(dM, hM, mM), LAMBDA totalSeconds :
                      [thrown |-> FALSE, resets_at |-> <<t + totalSeconds>>,
                       time_remaining_seconds |-> totalSeconds,
                       time_remaining_human |-> formatDuration(totalSeconds)])
             ELSE With(parseAbsoluteTime(contextLines[k], t, loc), LAMBDA abs :
                      IF abs.thrown THEN ResetThrown
                      ELSE IF abs.found THEN WithHuman(abs)
                      ELSE FirstPass(contextLines, k + 1, t, loc))))))

parseResetTime(contextLines, t, loc) == FirstPass(contextLines, 1, t, loc)

(***************************************************************************)
(* Quota extractor                                                         *)
(***************************************************************************)
\* The table QUOTA_LABELS; `words` are the token sequences its pattern accepts.
QUOTA_LABELS == <<
    [words |-> {<<"current", "session">>}, type |-> "session"],
    [words |-> {<<"current", "week", "(all", "models)">>,
                <<"current", "week", "(all", "model)">>}, type |-> "weekly"],
    [words |-> {<<"current", "week", "(opus)">>,
                <<"current", "week", "(opus", "only)">>}, type |-> "opus"],
    [words |-> {<<"current", "week", "(sonnet)">>,
                <<"current", "week", "(sonnet", "only)">>}, type |-> "sonnet"],
    [words |-> {<<"opus", "usage">>}, type |-> "opus"],
    [words |-> {<<"sonnet", "usage">>}, type |-> "sonnet"] >>

\* the entries of QUOTA_LABELS whose pattern matches the line
LabelMatches(line) ==
    {p \in 1..Len(QUOTA_LABELS) : HasAnyWords(Toks(line), QUOTA_LABELS[p].words)}
IsLabelLine(line) == LabelMatches(line) # {}

COST_SECTION_RE(line) == HasWords(Toks(line), <<"extra", "usage">>)

\* every section running to the end of the lines
findNextSectionBoundaryAtEnd(lines, startIdx) == Len(lines) + 1
\* the boundary without the stop at the cost section
findNextSectionBoundaryLabelsOnly(lines, startIdx) ==
    LET K == {k \in (startIdx + 1)..Len(lines) : IsLabelLine(lines[k])}
    IN  IF K = {} THEN Len(lines) + 1 ELSE MinOfSet(K)
\* Lines are numbered from 1; the boundary is Len(lines) + 1 at the end.
findNextSectionBoundary(lines, startIdx) ==
    LET K == {k \in (startIdx + 1)..Len(lines) :
                 IsLabelLine(lines[k]) \/ COST_SECTION_RE(lines[k])}
    IN  IF K = {} THEN Len(lines) + 1 ELSE MinOfSet(K)

\* lines[j].match(PERCENT_RE): value and wording of the first match
PercentMatch(line) ==
    LET toks == Toks(line)
        i == MinOfSet({k \in 1..Len(toks) : PercentAt(toks, k)})
    IN  [value |-> toks[i].n % 1000, word |-> toks[i + 2].s]

\* isUsed ? 100 - value : value
PercentRemainingAsRead(pMatch) == pMatch.value
PercentRemaining(pMatch) ==
    IF pMatch.word = "used" THEN 100 - pMatch.value ELSE pMatch.value

PercentWindow == 6

\* lines.slice(i, sectionEnd) for the label at i and the percentage line at j
ResetWindowFromPercent(lines, i, j, sectionEnd) == SubSeq(lines, j, sectionEnd - 1)
ResetWindow(lines, i, j, sectionEnd) == SubSeq(lines, i, sectionEnd - 1)

RECURSIVE ParseQuotasFrom(_, _, _, _, _)
ParseQuotasFrom(lines, i, quotas, t, loc) ==
    IF i > Len(lines) THEN [thrown |-> FALSE, quotas |-> quotas]
    ELSE IF ~IsLabelLine(lines[i]) THEN ParseQuotasFrom(lines, i + 1, quotas, t, loc)
    ELSE With(QUOTA_LABELS[MinOfSet(LabelMatches(lines[i]))], LAMBDA labelMatch :
         With(findNextSectionBoundary(lines, i), LAMBDA sectionEnd :
         With(Min(i + PercentWindow, sectionEnd), LAMBDA searchEnd :
         With({j \in i..(searchEnd - 1) : PERCENT_RE(lines[j])}, LAMBDA J :
             IF J = {} THEN ParseQuotasFrom(lines, i + 1, quotas, t, loc)
             ELSE With(MinOfSet(J), LAMBDA j :
                  With(PercentMatch(lines[j]), LAMBDA pMatch :
                  With(PercentRemaining(pMatch), LAMBDA percentRemaining :
                  With(ResetWindow(lines, i, j, sectionEnd), LAMBDA resetWindow :
                  With(parseResetTime(resetWindow, t, loc), LAMBDA resetInfo :
                      IF resetInfo.thrown THEN [thrown |-> TRUE, quotas |-> quotas]
                      ELSE ParseQuotasFrom(lines, j + 1,
                               Append(quotas,
                                   [type |-> labelMatch.type,
                                    percent_remaining |-> percentRemaining,
                                    resets_at |-> resetInfo.resets_at,
                                    time_remaining_seconds |-> resetInfo.time_remaining_seconds,
                                    time_remaining_human |-> resetInfo.time_remaining_human]),
                               t, loc))))))))))

parseQuotas(lines, t, loc) == ParseQuotasFrom(lines, 1, <<>>, t, loc)

(***************************************************************************)
(* Cost usage.  An amount is <digits> (, <digits>)* (. <digits>)?, each    *)
(* group a token; groups after a comma are three digits and the fraction   *)
(* two.  Amounts are in cents.                                             *)
(***************************************************************************)
RECURSIVE AmountGroups(_, _)
AmountGroups(toks, i) ==
    IF ~IsNum(Tok(toks, i)) THEN <<>>
    ELSE IF IsWord(Tok(toks, i + 1), ",") /\ IsNum(Tok(toks, i + 2))
    THEN <<toks[i].n>> \o AmountGroups(toks, i + 2)
    ELSE <<toks[i].n>>

\* ([\d,]+\.?\d*) read at position i: the groups, the fraction, the next position
AmountAt(toks, i) ==
    With(AmountGroups(toks, i), LAMBDA g :
    With(i + 2 * Len(g) - 1, LAMBDA j :
    With(IsWord(Tok(toks, j), "."), LAMBDA hasDot :
    With(hasDot /\ IsNum(Tok(toks, j + 1)), LAMBDA hasFrac :
        [ok |-> g # <<>>, groups |-> g,
         frac |-> IF hasFrac THEN Tok(toks, j + 1).n ELSE 0,
         next |-> IF hasFrac THEN j + 2 ELSE IF hasDot THEN j + 1 ELSE j]))))

\* parseFloat(m.replace(",", "")): replace removes the first comma only and
\* parseFloat stops at the next one
AmountValue(a) ==
    IF Len(a.groups) = 1 THEN a.groups[1] * 100 + a.frac
    ELSE IF Len(a.groups) = 2 THEN (a.groups[1] * 1000 + a.groups[2]) * 100 + a.frac
    ELSE (a.groups[1] * 1000 + a.groups[2]) * 100

\* COST_AMOUNT_RE matched with the first amount at position i
CostAmountAt(toks, i) ==
    With(AmountAt(toks, i), LAMBDA a :
    With(IF IsWord(Tok(toks, a.next + 1), "$") THEN a.next + 2 ELSE a.next + 1, LAMBDA k :
    With(AmountAt(toks, k), LAMBDA b :
        [ok |-> a.ok /\ IsWord(Tok(toks, a.next), "/") /\ b.ok
                /\ IsWord(Tok(toks, b.next), "spent"),
         spent |-> a, budget |-> b])))

HasCostAmount(line) ==
    With(Toks(line), LAMBDA toks : \E i \in 1..Len(toks) : CostAmountAt(toks, i).ok)

CostSearchWindow == 10

RECURSIVE ParseCostFrom(_, _)
ParseCostFrom(lines, i) ==
    IF i > Len(lines) THEN [spent |-> 0, budget |-> 0]
    ELSE IF ~COST_SECTION_RE(lines[i]) THEN ParseCostFrom(lines, i + 1)
    ELSE With(Min(i + CostSearchWindow, Len(lines) + 1), LAMBDA searchEnd :
         With({j \in i..(searchEnd - 1) : HasCostAmount(lines[j])}, LAMBDA J :
             IF J = {} THEN ParseCostFrom(lines, i + 1)
             ELSE With(Toks(lines[MinOfSet(J)]), LAMBDA toks :
                  With(CostAmountAt(toks, MinOfSet({k \in 1..Len(toks) :
                                                       CostAmountAt(toks, k).ok})), LAMBDA m :
                      [spent |-> AmountValue(m.spent), budget |-> AmountValue(m.budget)]))))

parseCostUsage(lines) == ParseCostFrom(lines, 1)

(***************************************************************************)
(* parseCliOutput                                                          *)
(***************************************************************************)
MsgNoData == "No quota data found in claude /usage output."

NoData ==
    [account_type |-> "", email |-> "", quotas |-> <<>>,
     cost_usage |-> [spent |-> 0, budget |-> 0], captured_at |-> <<>>,
     auth_error |-> NoAuthError]

parseCliOutputQuotasFirst(raw, t, loc) ==
    LET lines == SplitLines(stripAnsi(raw))
        authError == detectAuthError(lines)
        q == parseQuotas(lines, t, loc)
    IN  IF q.thrown THEN [kind |-> "throws", message |-> "RangeError", data |-> NoData]
        ELSE IF Len(q.quotas) > 0
        THEN [kind |-> "ok", message |-> "",
              data |-> [account_type |-> parseAccountType(lines), email |-> parseEmail(lines),
                        quotas |-> q.quotas, cost_usage |-> parseCostUsage(lines),
                        captured_at |-> <<t>>, auth_error |-> authError]]
        ELSE IF authError.Code \in AUTH_ERROR_CODES
        THEN [kind |-> "not_authenticated", message |-> authError.Message, data |-> NoData]
        ELSE [kind |-> "error", message |-> MsgNoData, data |-> NoData]

parseCliOutputEmptyOk(raw, t, loc) ==
    LET lines == SplitLines(stripAnsi(raw))
        authError == detectAuthError(lines)
        q == parseQuotas(lines, t, loc)
    IN  IF authError.Code \in AUTH_ERROR_CODES
        THEN [kind |-> "not_authenticated", message |-> authError.Message, data |-> NoData]
        ELSE IF q.thrown THEN [kind |-> "throws", message |-> "RangeError", data |-> NoData]
        ELSE [kind |-> "ok", message |-> "",
              data |-> [account_type |-> parseAccountType(lines), email |-> parseEmail(lines),
                        quotas |-> q.quotas, cost_usage |-> parseCostUsage(lines),
                        captured_at |-> <<t>>, auth_error |-> authError]]

\* kind "throws" stands for an exception that leaves parseCliOutput
parseCliOutput(raw, t, loc) ==
    LET stripped == stripAnsi(raw)
        lines == SplitLines(stripped)
        authError == detectAuthError(lines)
    IN  IF authError.Code # "" /\ authError.Code \in AUTH_ERROR_CODES
        THEN [kind |-> "not_authenticated", message |-> authError.Message, data |-> NoData]
        ELSE With(parseQuotas(lines, t, loc), LAMBDA q :
                 IF q.thrown THEN [kind |-> "throws", message |-> "RangeError", data |-> NoData]
                 ELSE IF Len(q.quotas) = 0
                 THEN [kind |-> "error", message |-> MsgNoData, data |-> NoData]
                 ELSE [kind |-> "ok", message |-> "",
                       data |-> [account_type |-> parseAccountType(lines),
                                 email |-> parseEmail(lines),
                                 quotas |-> q.quotas,
                                 cost_usage |-> parseCostUsage(lines),
                                 captured_at |-> <<t>>,
                                 auth_error |-> authError]])

\* DEBUG_MODE: the three writeFileSync calls of parseCliOutput, in one try
\* block; the first `written` of them succeed and a failure is swallowed
DebugWrites(files, raw, written) ==
    [raw |-> IF written >= 1 THEN <<raw>> ELSE files.raw,
     stripped |-> IF written >= 2 THEN <<stripAnsi(raw)>> ELSE files.stripped,
     lines |-> IF written >= 3 THEN <<SplitLines(stripAnsi(raw))>> ELSE files.lines]

NoDebugFiles == [raw |-> <<>>, stripped |-> <<>>, lines |-> <<>>]

NoResult == [kind |-> "none", message |-> "", data |-> NoData]

(***************************************************************************)
(* Inputs of the parser: transcripts of at most MaxLines lines of          *)
(* RawLinePool, joined by "\n", read at one of the clocks of ClockPool.    *)
(***************************************************************************)
MaxLines == 3

LineSession == <<W("current"), W("session")>>
LineWeeklyAnsi ==
    <<ESC("[1m"), W("current"), CUF(1), W("week"), CUF(-1), W("(all"), W("models)"), ESC("[0m")>>
LineUsed14 == <<N(14), W("%"), W("used")>>
LineUsed150 == <<N(150), W("%"), W("used")>>
LineLeft7 == <<N(7), W("%"), W("left")>>
LineRemaining30 == <<N(30), W("%"), W("remaining")>>
LineResets8pm == <<W("resets"), N(8), W("pm"), TZ("America/Toronto")>>
LineResetsRel == <<W("resets"), W("in"), N(3), W("d"), N(2), W("h")>>
LineSetup == <<W("let's"), W("get"), W("started")>>
LineNoSub == <<W("no"), W("active"), W("subscription")>>
LineJunk == <<W("some"), W("random"), CR, CTL, W("text")>>

RawLinePool ==
    {LineSession, LineWeeklyAnsi, LineUsed14, LineUsed150, LineLeft7, LineRemaining30,
     LineResets8pm, LineResetsRel, LineSetup, LineNoSub, LineJunk}

\* 2026-02-22T21:40:00Z, 16:40 in America/Toronto
FakeNow == 1771796400
\* 2026-02-23T01:30:17Z, 20:30:17 in America/Toronto
LateNow == FakeNow + 13817

ClockPool == {[now |-> FakeNow, loc |-> -300], [now |-> LateNow, loc |-> 0]}

Transcripts == UNION {{JoinLines(f) : f \in [1..k -> RawLinePool]} : k \in 0..MaxLines}

(***************************************************************************)
(* The parser as a state machine: one call of parseCliOutput on a drawn    *)
(* transcript.                                                             *)
(***************************************************************************)
\* Date.now() when the extension host starts; any value a running system
\* gives is far above REFRESH_THROTTLE_MS
StartMs == 1000000

\* the StatusBarManager as its constructor leaves it
ManagerConstructed ==
    /\ lifecycle = "constructed"
    /\ wallClock = StartMs
    /\ intervalTimer = <<>>
    /\ lastManualRefresh = 0
    /\ lastDisplayText = ""
    /\ lastResult = [kind |-> "undefined", message |-> "", data |-> NoData]
    /\ statusBarItem = [text |-> "", tooltip |-> <<"Claude API Usage (click to refresh)">>,
                        backgroundColor |-> "undefined"]
    /\ refreshes = {}
    /\ started = 0
    /\ dialogs = <<>>
ManagerIdle == ManagerConstructed /\ trusted = TRUE

\* no pure function is being called
NoCall == callee = "" /\ arg = <<>> /\ ret = <<>>

(***************************************************************************)
(* Trust management.  The file ~/.claude.json is missing, holds text that  *)
(* is not JSON, or holds a configuration written with some indentation: a  *)
(* top-level key other than `projects` (numStartups) and, under            *)
(* `projects`, entries by path with their keys; <<>> is an absent key.    *)
(***************************************************************************)
WorkspacePath == "/home/dev/app"
OtherPath == "/home/dev/lib"

ProjectEntries ==
    [hasTrustDialogAccepted : {<<>>, <<TRUE>>, <<FALSE>>}, allowedTools : {<<>>, <<"Bash">>}]
ProjectMaps == UNION {[S -> ProjectEntries] : S \in SUBSET {WorkspacePath, OtherPath}}
ClaudeConfigs == [numStartups : {<<>>, <<7>>}, projects : {<<>>} \cup {<<m>> : m \in ProjectMaps}]
\* the object {}
EmptyConfig == [numStartups |-> <<>>, projects |-> <<>>]

ClaudeJsonFiles ==
    {[kind |-> k, indent |-> 0, config |-> EmptyConfig] : k \in {"missing", "malformed"}}
    \cup [kind : {"json"}, indent : {0, 2}, config : ClaudeConfigs]

\* readFileSync and JSON.parse; `readFault` is readFileSync failing on a
\* file that is there
readClaudeConfig(file, readFault) ==
    IF readFault \/ file.kind # "json" THEN EmptyConfig ELSE file.config

\* the file after a writeFileSync of JSON.stringify(config, null, 2)
writeClaudeConfig(config) == [kind |-> "json", indent |-> 2, config |-> config]

isWorkspaceTrusted(file, readFault, workspacePath) ==
    LET config == readClaudeConfig(file, readFault)
    IN  /\ config.projects # <<>>
        /\ workspacePath \in DOMAIN config.projects[1]
        /\ config.projects[1][workspacePath].hasTrustDialogAccepted = <<TRUE>>

\* the file after trustWorkspace(workspacePath) has written it
trustWorkspace(file, readFault, workspacePath) ==
    LET config == readClaudeConfig(file, readFault)
        projects == IF config.projects = <<>> THEN <<>> ELSE config.projects[1]
        trusted1 ==
            [p \in DOMAIN projects \cup {workspacePath} |->
                IF p # workspacePath THEN projects[p]
                ELSE IF workspacePath \notin DOMAIN projects
                     THEN [hasTrustDialogAccepted |-> <<TRUE>>, allowedTools |-> <<>>]
                     ELSE [projects[p] EXCEPT !.hasTrustDialogAccepted = <<TRUE>>]]
    IN  writeClaudeConfig([config EXCEPT !.projects = <<trusted1>>])

\* a file that agrees with env.trusted
ClaudeJsonFor(isTrusted) ==
    IF isTrusted
    THEN writeClaudeConfig([numStartups |-> <<7>>,
             projects |-> <<[p \in {WorkspacePath} |->
                               [hasTrustDialogAccepted |-> <<TRUE>>, allowedTools |-> <<>>]]>>])
    ELSE [kind |-> "missing", indent |-> 0, config |-> EmptyConfig]

AcqIdle ==
    /\ env = [isWindows |-> FALSE, scriptExists |-> TRUE, claudeExists |-> TRUE,
              spawnFault |-> FALSE, trusted |-> TRUE]
    /\ claudeJson = ClaudeJsonFor(TRUE)
    /\ pc = "idle"
    /\ child = "none"
    /\ output = <<>>
    /\ settled = FALSE
    /\ promise = [state |-> "pending", error |-> "", value |-> <<>>]
    /\ timer = "unset"
    /\ earlyKillTimer = "undefined"
    /\ clock = 0
    /\ graceDue = 0
    /\ chunks = 0
    /\ sigterms = 0
    /\ settleCalls = 0
    /\ readResult = NoResult

\* the parser has not been called
ParserIdle ==
    /\ rawOutput = <<>>
    /\ now = FakeNow
    /\ localOffset = -300
    /\ ppc = "input"
    /\ result = NoResult
    /\ debugFiles = NoDebugFiles
    /\ hourCycle = "h23"

ParseInit ==
    /\ rawOutput \in Transcripts
    /\ \E c \in ClockPool : now = c.now /\ localOffset = c.loc
    /\ ppc = "input"
    /\ result = NoResult
    /\ debugFiles = NoDebugFiles
    /\ hourCycle = "h23"
    /\ AcqIdle
    /\ ManagerIdle
    /\ NoCall

CallParseCliOutput ==
    /\ ppc = "input"
    /\ result' = parseCliOutput(rawOutput, now, localOffset)
    /\ \E written \in 0..3 : debugFiles' = DebugWrites(debugFiles, rawOutput, written)
    /\ ppc' = "parsed"
    /\ UNCHANGED <<rawOutput, now, localOffset, hourCycle>>
    /\ UNCHANGED <<acqVars, callVars, mgrVars>>

ParseNext == CallParseCliOutput

ParseSpec == ParseInit /\ [][ParseNext]_vars

\* what parseCliOutput computes on the way, for the transcript of the state
Lines == SplitLines(stripAnsi(rawOutput))
Quotas == parseQuotas(Lines, now, localOffset).quotas

(***************************************************************************)
(* Inputs for the resolution of deadlines: one "Current session" section   *)
(* whose body is at most MaxBody lines of ResetLinePool, read at one of    *)
(* the clocks of ResetClockPool by a runtime of either hour cycle.         *)
(***************************************************************************)
MaxBody == 2

LineRenews45m == <<W("renews"), W("in"), N(45), W("min")>>
LineResets8pmLocal == <<W("resets"), N(8), W("pm")>>
LineResets1205am == <<W("resets"), N(12), W(":"), N(5), W("am"), TZ("America/Toronto")>>
LineResetsFeb27 ==
    <<W("resets"), W("feb"), N(27), W("at"), N(7), W("pm"), TZ("America/Toronto")>>
LineResetsFoo27 == <<W("resets"), W("foo"), N(27), W("at"), N(7), W("pm")>>
LineResets8pmApprox == <<W("resets"), N(8), W("pm"), TZ("approx")>>
LineGarbled9pm == <<W("re"), W("sets"), N(9), W("pm")>>
LineUsed25At11pm == <<N(25), W("%"), W("used"), N(11), W("pm")>>
LineResetsSoon == <<W("resets"), W("soon")>>

ResetLinePool ==
    {LineUsed14, LineUsed25At11pm, LineResetsRel, LineRenews45m, LineResets8pm,
     LineResets8pmLocal, LineResets1205am, LineResetsFeb27, LineResetsFoo27,
     LineResets8pmApprox, LineGarbled9pm, LineResetsSoon}

\* 2026-02-23T01:00:30Z, 20:00:30 in America/Toronto
EightPmNow == FakeNow + 12030
\* 2026-02-23T05:10:00Z, 00:10 in America/Toronto
MidnightNow == FakeNow + 27000

ResetClockPool ==
    {[now |-> FakeNow, loc |-> -300], [now |-> LateNow, loc |-> 0],
     [now |-> EightPmNow, loc |-> -300], [now |-> MidnightNow, loc |-> -300]}

SectionTranscripts ==
    UNION {{JoinLines(<<LineSession>> \o f) : f \in [1..k -> ResetLinePool]} : k \in 0..MaxBody}

ResetInit ==
    /\ rawOutput \in SectionTranscripts
    /\ \E c \in ResetClockPool : now = c.now /\ localOffset = c.loc
    /\ ppc = "input"
    /\ result = NoResult
    /\ debugFiles = NoDebugFiles
    /\ hourCycle \in HourCycles
    /\ AcqIdle
    /\ ManagerIdle
    /\ NoCall

ResetSpec == ResetInit /\ [][ParseNext]_vars

(***************************************************************************)
(* Inputs for the order of lines within a section: "Current session", at   *)
(* most MaxFiller lines of no interest, then a percentage line and a       *)
(* deadline line in either order; alone or followed by a weekly section.   *)
(***************************************************************************)
MaxFiller == 5

LineFiller == <<W("progress"), W("bar")>>
LineWeekly == <<W("current"), W("week"), W("(all"), W("models)")>>
LineExtraUsage == <<W("extra"), W("usage")>>

PercentLinePool == {LineUsed14, LineLeft7, LineUsed25At11pm}
DeadlineLinePool == {LineResetsRel, LineResets8pm, LineResetsFeb27, LineGarbled9pm}
TailPool == {<<>>, <<LineWeekly, LineLeft7>>}

OrderedTranscripts ==
    {JoinLines(<<LineSession>> \o [i \in 1..k |-> LineFiller] \o pair \o tail) :
        k \in 0..MaxFiller,
        pair \in UNION {{<<pl, dl>>, <<dl, pl>>} : pl \in PercentLinePool, dl \in DeadlineLinePool},
        tail \in TailPool}

OrderInit ==
    /\ rawOutput \in OrderedTranscripts
    /\ \E c \in ClockPool : now = c.now /\ localOffset = c.loc
    /\ ppc = "input"
    /\ result = NoResult
    /\ debugFiles = NoDebugFiles
    /\ hourCycle \in HourCycles
    /\ AcqIdle
    /\ ManagerIdle
    /\ NoCall

OrderSpec == OrderInit /\ [][ParseNext]_vars

(***************************************************************************)
(* Inputs for the two fields of a deadline: a "Current session" section    *)
(* with a percentage line and one deadline line, among them a date that    *)
(* is past at every clock of ResetClockPool.                               *)
(***************************************************************************)
LineResetsFeb20 ==
    <<W("resets"), W("feb"), N(20), W("at"), N(7), W("pm"), TZ("America/Toronto")>>

DeadlineTranscripts ==
    {JoinLines(<<LineSession, pl, dl>>) :
        pl \in {LineUsed14, LineLeft7},
        dl \in {LineResetsFeb20, LineResetsFeb27, LineResetsRel, LineRenews45m,
                LineResets8pm, LineResets1205am}}

DeadlineInit ==
    /\ rawOutput \in DeadlineTranscripts
    /\ \E c \in ResetClockPool : now = c.now /\ localOffset = c.loc
    /\ ppc = "input"
    /\ result = NoResult
    /\ debugFiles = NoDebugFiles
    /\ hourCycle \in HourCycles
    /\ AcqIdle
    /\ ManagerIdle
    /\ NoCall

DeadlineSpec == DeadlineInit /\ [][ParseNext]_vars

(***************************************************************************)
(* Inputs for the separation of sections: a "Current session" section of   *)
(* no or MaxLead lines of no interest and a body, then a second section    *)
(* opened by a weekly label or by "Extra usage", with a body of its own.   *)
(* A body is a percentage line, a deadline line, both in either order, or  *)
(* nothing.                                                                *)
(***************************************************************************)
MaxLead == 4

SectionBodies ==
    {<<>>} \cup {<<l>> : l \in {LineUsed14, LineLeft7, LineResetsRel, LineResets8pm}}
           \cup UNION {{<<pl, dl>>, <<dl, pl>>} :
                          pl \in {LineUsed14, LineLeft7}, dl \in {LineResetsRel, LineResets8pm}}

SectionedTranscripts ==
    {JoinLines(<<LineSession>> \o [i \in 1..k |-> LineFiller] \o first \o <<opener>> \o second) :
        k \in {0, MaxLead}, first \in SectionBodies,
        opener \in {LineWeekly, LineExtraUsage}, second \in SectionBodies}

SectionsInit ==
    /\ rawOutput \in SectionedTranscripts
    /\ \E c \in ClockPool : now = c.now /\ localOffset = c.loc
    /\ ppc = "input"
    /\ result = NoResult
    /\ debugFiles = NoDebugFiles
    /\ hourCycle \in HourCycles
    /\ AcqIdle
    /\ ManagerIdle
    /\ NoCall

SectionsSpec == SectionsInit /\ [][ParseNext]_vars

(***************************************************************************)
(* Acquisition: readUsageData and runClaudeUsage.  The child process, the  *)
(* two timers and the continuation of readUsageData after its await are    *)
(* the processes; time is the variable clock, in milliseconds since spawn. *)
(***************************************************************************)
COMMAND_TIMEOUT_MS == 30000
EARLY_KILL_DELAY_MS == 1500

MsgNotTrusted ==
    "Claude CLI hasn't trusted this workspace yet. Allow the extension to authorize it?"
MsgNotFound ==
    "Claude CLI not found. Install from https://claude.ai/code or set claudeUsage.claudePath in settings."
MsgTimeout == "claude /usage timed out after 30s."
MsgFailedPrefix == "Failed to run claude: "

\* the file handed to cp.spawn: the claude binary on win32, `script` elsewhere
SpawnFile(e) == IF e.isWindows THEN "claude" ELSE "script"
SpawnFileExists(e) == IF e.isWindows THEN e.claudeExists ELSE e.scriptExists

\* the child after cp.spawn: a missing spawn file is ENOENT, another spawn
\* failure is EACCES; both are reported by an 'error' event on the next tick
Spawned(e) ==
    IF ~SpawnFileExists(e) THEN "spawn_enoent"
    ELSE IF e.spawnFault THEN "spawn_eacces"
    ELSE "running"

SpawnFailed == {"spawn_enoent", "spawn_eacces"}

\* clearTimeout: a pending timer is cancelled, any other is left as it is
ClearTimeout(t) == IF t = "pending" THEN "cleared" ELSE t

\* resolve and reject of the promise: a promise already settled ignores both
Resolve(p, v) ==
    IF p.state = "pending" THEN [state |-> "resolved", error |-> "", value |-> v] ELSE p
Reject(p, e) ==
    IF p.state = "pending" THEN [state |-> "rejected", error |-> e, value |-> <<>>] ELSE p

\* settle without its latch
settleUnlatched(err, s) ==
    [settled |-> TRUE,
     timer |-> ClearTimeout(s.timer),
     earlyKillTimer |-> IF s.earlyKillTimer # "undefined"
                        THEN ClearTimeout(s.earlyKillTimer) ELSE s.earlyKillTimer,
     promise |-> IF err # "" THEN Reject(s.promise, err) ELSE Resolve(s.promise, s.output),
     output |-> s.output]

\* settle(err) in the closure state s = [settled, timer, earlyKillTimer, promise,
\* output]; err = "" is the call without an error
settle(err, s) ==
    IF s.settled THEN s
    ELSE [settled |-> TRUE,
          timer |-> ClearTimeout(s.timer),
          earlyKillTimer |-> IF s.earlyKillTimer # "undefined"
                             THEN ClearTimeout(s.earlyKillTimer) ELSE s.earlyKillTimer,
          promise |-> IF err # "" THEN Reject(s.promise, err) ELSE Resolve(s.promise, s.output),
          output |-> s.output]

Closure ==
    [settled |-> settled, timer |-> timer, earlyKillTimer |-> earlyKillTimer,
     promise |-> promise, output |-> output]

\* /\d{1,3}\s*%\s*(?:used|left)/i.test(cleaned), on the whole buffer
EarlyHeuristic(cleaned) ==
    \E i \in 1..Len(Toks(cleaned)) :
        /\ IsNum(Toks(cleaned)[i])
        /\ IsWord(Tok(Toks(cleaned), i + 1), "%")
        /\ IsWordIn(Tok(Toks(cleaned), i + 2), {"used", "left"})

\* the catch block of readUsageData
FailureResult(message) ==
    IF message = "ENOENT" THEN [kind |-> "error", message |-> MsgNotFound, data |-> NoData]
    ELSE IF message = "timeout" THEN [kind |-> "error", message |-> MsgTimeout, data |-> NoData]
    ELSE [kind |-> "error", message |-> MsgFailedPrefix \o message, data |-> NoData]

\* the pending timer that expires first
NextDue ==
    MinOfSet((IF timer = "pending" THEN {COMMAND_TIMEOUT_MS} ELSE {})
             \cup (IF earlyKillTimer = "pending" THEN {graceDue} ELSE {}))

\* the continuation of readUsageData is a microtask: once the promise is
\* settled it runs before any further event or timer callback
Runnable == ~(pc = "awaiting" /\ promise.state # "pending")

(***************************************************************************)
(* What the child writes: at most MaxChunks chunks of ChunkPool, each on   *)
(* stdout or on stderr.  With the PTY wrapper and no claude binary the     *)
(* child is `script`, which reports the failed exec and exits.             *)
(***************************************************************************)
MaxChunks == 3
TickMs == 29000

ChunkLabel == <<ESC("[1m"), W("current"), W("session"), ESC("[0m"), NL>>
ChunkFigure == <<N(14), W("%")>>
ChunkUsed == <<W("used"), NL>>
ChunkLeft == <<N(7), W("%"), W("left"), NL>>
ChunkExecFailed ==
    <<W("script:"), W("claude:"), W("no"), W("such"), W("file"), W("or"), W("directory"), NL>>

ChunkPool(e) ==
    IF ~e.isWindows /\ ~e.claudeExists THEN {ChunkExecFailed}
    ELSE {ChunkLabel, ChunkFigure, ChunkUsed, ChunkLeft}

Envs ==
    [isWindows : BOOLEAN, scriptExists : BOOLEAN, claudeExists : BOOLEAN,
     spawnFault : BOOLEAN, trusted : BOOLEAN]

AcqInit ==
    /\ rawOutput = <<>>
    /\ now = FakeNow
    /\ localOffset = -300
    /\ ppc = "input"
    /\ result = NoResult
    /\ debugFiles = NoDebugFiles
    /\ hourCycle = "h23"
    /\ env \in Envs
    /\ claudeJson = ClaudeJsonFor(env.trusted)
    /\ pc = "idle"
    /\ child = "none"
    /\ output = <<>>
    /\ settled = FALSE
    /\ promise = [state |-> "pending", error |-> "", value |-> <<>>]
    /\ timer = "unset"
    /\ earlyKillTimer = "undefined"
    /\ clock = 0
    /\ graceDue = 0
    /\ chunks = 0
    /\ sigterms = 0
    /\ settleCalls = 0
    /\ readResult = NoResult
    /\ NoCall
    /\ ManagerIdle

\* readUsageData up to its await: the trust check, then the executor of
\* runClaudeUsage (spawn, hard timer, handlers)
Start ==
    /\ pc = "idle"
    /\ IF ~env.trusted
       THEN /\ readResult' = [kind |-> "not_trusted", message |-> MsgNotTrusted, data |-> NoData]
            /\ pc' = "done"
            /\ UNCHANGED <<child, output, settled, earlyKillTimer, timer, clock>>
       ELSE /\ output' = <<>>
            /\ settled' = FALSE
            /\ earlyKillTimer' = "undefined"
            /\ child' = Spawned(env)
            /\ timer' = "pending"
            /\ clock' = 0
            /\ pc' = "awaiting"
            /\ UNCHANGED readResult
    /\ UNCHANGED <<claudeJson, env, promise, graceDue, chunks, sigterms, settleCalls>>
    /\ UNCHANGED <<parserVars, callVars, mgrVars>>

\* the stdout handler arming the grace timer at every chunk that leaves the
\* phrase in the buffer
StdoutDataRearming ==
    /\ child = "running" /\ Runnable /\ chunks < MaxChunks
    /\ \E chunk \in ChunkPool(env) :
          /\ output' = output \o chunk
          /\ IF EarlyHeuristic(stripAnsi(output \o chunk))
             THEN earlyKillTimer' = "pending" /\ graceDue' = clock + EARLY_KILL_DELAY_MS
             ELSE UNCHANGED <<earlyKillTimer, graceDue>>
    /\ chunks' = chunks + 1
    /\ UNCHANGED <<claudeJson, env, pc, child, settled, promise, timer, clock, sigterms, settleCalls,
                   readResult>>
    /\ UNCHANGED <<parserVars, callVars, mgrVars>>

\* child.stdout.on("data")
StdoutData ==
    /\ child = "running" /\ Runnable /\ chunks < MaxChunks
    /\ \E chunk \in ChunkPool(env) :
          /\ output' = output \o chunk
          /\ IF EarlyHeuristic(stripAnsi(output \o chunk)) /\ earlyKillTimer = "undefined"
             THEN earlyKillTimer' = "pending" /\ graceDue' = clock + EARLY_KILL_DELAY_MS
             ELSE UNCHANGED <<earlyKillTimer, graceDue>>
    /\ chunks' = chunks + 1
    /\ UNCHANGED <<claudeJson, env, pc, child, settled, promise, timer, clock, sigterms, settleCalls,
                   readResult>>
    /\ UNCHANGED <<parserVars, callVars, mgrVars>>

\* child.stderr.on("data")
StderrData ==
    /\ child = "running" /\ Runnable /\ chunks < MaxChunks
    /\ \E chunk \in ChunkPool(env) : output' = output \o chunk
    /\ chunks' = chunks + 1
    /\ UNCHANGED <<claudeJson, env, pc, child, settled, promise, timer, earlyKillTimer, clock, graceDue,
                   sigterms, settleCalls, readResult>>
    /\ UNCHANGED <<parserVars, callVars, mgrVars>>

\* the closure after a call of settle
Settled(s) ==
    /\ settled' = s.settled
    /\ timer' = s.timer
    /\ earlyKillTimer' = s.earlyKillTimer
    /\ promise' = s.promise
    /\ settleCalls' = settleCalls + 1

\* child.on("error"): the spawn failed
ChildError ==
    /\ child \in SpawnFailed /\ Runnable
    /\ Settled(settle(IF child = "spawn_enoent" THEN "ENOENT"
                      ELSE "spawn " \o SpawnFile(env) \o " EACCES", Closure))
    /\ child' = "errored"
    /\ UNCHANGED <<claudeJson, env, pc, output, clock, graceDue, chunks, sigterms, readResult>>
    /\ UNCHANGED <<parserVars, callVars, mgrVars>>

\* child.on("close"): the process is gone and its streams are closed
ChildClose ==
    /\ child \in {"running", "errored"} /\ Runnable
    /\ Settled(settle("", Closure))
    /\ child' = "closed"
    /\ UNCHANGED <<claudeJson, env, pc, output, clock, graceDue, chunks, sigterms, readResult>>
    /\ UNCHANGED <<parserVars, callVars, mgrVars>>

\* the hard timer fires but only kills the child
HardTimeoutKillOnly ==
    /\ timer = "pending" /\ clock >= COMMAND_TIMEOUT_MS /\ Runnable
    /\ sigterms' = sigterms + 1
    /\ timer' = "fired"
    /\ UNCHANGED <<settled, earlyKillTimer, promise, settleCalls>>
    /\ UNCHANGED <<claudeJson, env, pc, child, output, clock, graceDue, chunks, readResult>>
    /\ UNCHANGED <<parserVars, callVars, mgrVars>>

\* the callback of the hard timer
HardTimeout ==
    /\ timer = "pending" /\ clock >= COMMAND_TIMEOUT_MS /\ Runnable
    /\ sigterms' = sigterms + 1
    /\ Settled(settle("timeout", [Closure EXCEPT !.timer = "fired"]))
    /\ UNCHANGED <<claudeJson, env, pc, child, output, clock, graceDue, chunks, readResult>>
    /\ UNCHANGED <<parserVars, callVars, mgrVars>>

\* the callback of the grace timer
GraceTimeout ==
    /\ earlyKillTimer = "pending" /\ clock >= graceDue /\ Runnable
    /\ sigterms' = sigterms + 1
    /\ Settled(settle("", [Closure EXCEPT !.earlyKillTimer = "fired"]))
    /\ UNCHANGED <<claudeJson, env, pc, child, output, clock, graceDue, chunks, readResult>>
    /\ UNCHANGED <<parserVars, callVars, mgrVars>>

\* time passes, up to the expiry of the next pending timer
Tick ==
    /\ pc # "idle" /\ Runnable /\ child \notin SpawnFailed
    /\ "pending" \in {timer, earlyKillTimer}
    /\ clock < NextDue
    /\ clock' = Min(clock + TickMs, NextDue)
    /\ UNCHANGED <<claudeJson, env, pc, child, output, settled, promise, timer, earlyKillTimer, graceDue,
                   chunks, sigterms, settleCalls, readResult>>
    /\ UNCHANGED <<parserVars, callVars, mgrVars>>

\* readUsageData after its await: the catch block, or parseCliOutput(rawOutput)
Finish ==
    /\ pc = "awaiting" /\ promise.state # "pending"
    /\ IF promise.state = "rejected"
       THEN /\ readResult' = FailureResult(promise.error)
            /\ UNCHANGED <<parserVars, callVars, mgrVars>>
       ELSE /\ rawOutput' = promise.value
            /\ result' = parseCliOutput(promise.value, now, localOffset)
            /\ \E written \in 0..3 :
                  debugFiles' = DebugWrites(debugFiles, promise.value, written)
            /\ ppc' = "parsed"
            /\ readResult' = result'
            /\ UNCHANGED <<now, localOffset, hourCycle, callVars, mgrVars>>
    /\ pc' = "done"
    /\ UNCHANGED <<claudeJson, env, child, output, settled, promise, timer, earlyKillTimer, clock, graceDue,
                   chunks, sigterms, settleCalls>>

Next ==
    \/ Start
    \/ StdoutData
    \/ StderrData
    \/ ChildError
    \/ ChildClose
    \/ HardTimeout
    \/ GraceTimeout
    \/ Tick
    \/ Finish

Spec == AcqInit /\ [][Next]_vars

\* what a step of Finish does to pc; such a step is possible exactly when
\* Finish is, and no other action takes pc from "awaiting" to "done"
Resume == pc = "awaiting" /\ promise.state # "pending" /\ pc' = "done"

\* timers expire, time passes, and the event loop runs the 'error' event of a
\* failed spawn and the continuation of readUsageData
FairSpec ==
    /\ AcqInit /\ [][Next]_vars
    /\ WF_vars(Start)
    /\ WF_vars(ChildError)
    /\ WF_vars(HardTimeout)
    /\ WF_vars(GraceTimeout)
    /\ WF_vars(Tick)
    /\ WF_pc(Resume)

(***************************************************************************)
(* Trusting the workspace: ~/.claude.json is any file of ClaudeJsonFiles,  *)
(* env.trusted is what it says of the workspace; trustWorkspace is called  *)
(* once, readUsageData starts.                                             *)
(***************************************************************************)
TrustInit ==
    /\ claudeJson \in ClaudeJsonFiles
    /\ env = [isWindows |-> FALSE, scriptExists |-> TRUE, claudeExists |-> TRUE,
              spawnFault |-> FALSE,
              trusted |-> isWorkspaceTrusted(claudeJson, FALSE, WorkspacePath)]
    /\ pc = "idle"
    /\ child = "none"
    /\ output = <<>>
    /\ settled = FALSE
    /\ promise = [state |-> "pending", error |-> "", value |-> <<>>]
    /\ timer = "unset"
    /\ earlyKillTimer = "undefined"
    /\ clock = 0
    /\ graceDue = 0
    /\ chunks = 0
    /\ sigterms = 0
    /\ settleCalls = 0
    /\ readResult = NoResult
    /\ ParserIdle
    /\ ManagerIdle
    /\ NoCall

\* trustWorkspace(workspacePath).  A failing writeFileSync throws and leaves
\* the file as it was or, having truncated it, empty.
TrustWorkspace ==
    /\ callee = "" /\ pc = "idle"
    /\ callee' = "trustWorkspace"
    /\ arg' = <<WorkspacePath>>
    /\ \E readFault, writeFault \in BOOLEAN :
          IF writeFault
          THEN /\ claudeJson' \in {claudeJson,
                                   [kind |-> "malformed", indent |-> 0, config |-> EmptyConfig]}
               /\ ret' = <<"throws">>
          ELSE /\ claudeJson' = trustWorkspace(claudeJson, readFault, WorkspacePath)
               /\ ret' = <<"returns">>
    /\ env' = [env EXCEPT !.trusted = isWorkspaceTrusted(claudeJson', FALSE, WorkspacePath)]
    /\ UNCHANGED <<pc, child, output, settled, promise, timer, earlyKillTimer, clock, graceDue,
                   chunks, sigterms, settleCalls, readResult>>
    /\ UNCHANGED <<parserVars, mgrVars>>

TrustNext == TrustWorkspace \/ Start

TrustSpec == TrustInit /\ [][TrustNext]_vars

(***************************************************************************)
(* formatDuration called on a count of seconds: up to MaxDays days, with   *)
(* hours, minutes and seconds at the ends and in the middle of their range *)
(***************************************************************************)
MaxDays == 2
UnitEdges(top) == {0, 1, top \div 2, top - 1}
SecondCounts ==
    {d * 86400 + h * 3600 + m * 60 + sec :
        d \in 0..MaxDays, h \in UnitEdges(24), m \in UnitEdges(60), sec \in UnitEdges(60)}

DurationInit ==
    /\ callee = "formatDuration"
    /\ arg \in SecondCounts
    /\ ret = <<>>
    /\ ParserIdle
    /\ AcqIdle
    /\ ManagerIdle

CallFormatDuration ==
    /\ callee = "formatDuration"
    /\ ret = <<>>
    /\ ret' = <<formatDuration(arg)>>
    /\ UNCHANGED <<callee, arg, parserVars, acqVars, mgrVars>>

DurationSpec == DurationInit /\ [][CallFormatDuration]_vars

(***************************************************************************)
(* formatStatusText called on a UsageData whose quota list holds at most   *)
(* MaxQuotas records of QuotaPool, in any order and with repetitions.      *)
(***************************************************************************)
\* parts.join(sep)
RECURSIVE JoinParts(_, _)
JoinParts(parts, sep) ==
    IF Len(parts) = 0 THEN ""
    ELSE IF Len(parts) = 1 THEN parts[1]
    ELSE parts[1] \o sep \o JoinParts(Tail(parts), sep)

\* quotas.find((q) => q.type === type), <<>> for undefined
FindLastQuota(quotas, type) ==
    LET I == {i \in 1..Len(quotas) : quotas[i].type = type}
    IN  IF I = {} THEN <<>> ELSE <<quotas[CHOOSE i \in I : \A j \in I : j <= i]>>
FindQuota(quotas, type) ==
    LET I == {i \in 1..Len(quotas) : quotas[i].type = type}
    IN  IF I = {} THEN <<>> ELSE <<quotas[MinOfSet(I)]>>

\* the part pushed for a record found, with the prefix given
StatusPart(found, prefix) ==
    IF found = <<>> THEN <<>>
    ELSE <<prefix \o ToString(100 - found[1].percent_remaining) \o "% "
               \o found[1].time_remaining_human>>

formatStatusText(data) ==
    JoinParts(StatusPart(FindQuota(data.quotas, "session"), "")
                  \o StatusPart(FindQuota(data.quotas, "weekly"), "")
                  \o StatusPart(FindQuota(data.quotas, "opus"), "opus ")
                  \o StatusPart(FindQuota(data.quotas, "sonnet"), "sonnet "),
              " | ")

MaxQuotas == 3

QuotaTypes == {"session", "weekly", "opus", "sonnet"}
\* records as parseQuotas makes them: resolved, unresolved, over 100 % used
QuotaPool ==
    {[type |-> ty, percent_remaining |-> 86, resets_at |-> <<FakeNow + 12000>>,
      time_remaining_seconds |-> 12000, time_remaining_human |-> "3h20m"] : ty \in QuotaTypes}
    \cup {[type |-> ty, percent_remaining |-> 7, resets_at |-> <<>>,
           time_remaining_seconds |-> 0, time_remaining_human |-> ""] : ty \in QuotaTypes}
    \cup {[type |-> "session", percent_remaining |-> -50, resets_at |-> <<FakeNow + 440400>>,
           time_remaining_seconds |-> 440400, time_remaining_human |-> "5d 2h"]}

UsageDatas ==
    {[account_type |-> "Max", email |-> "", quotas |-> q,
      cost_usage |-> [spent |-> 0, budget |-> 0], captured_at |-> <<FakeNow>>,
      auth_error |-> NoAuthError] :
        q \in UNION {[1..k -> QuotaPool] : k \in 0..MaxQuotas}}

StatusInit ==
    /\ callee = "formatStatusText"
    /\ arg \in UsageDatas
    /\ ret = <<>>
    /\ ParserIdle
    /\ AcqIdle
    /\ ManagerIdle

CallFormatStatusText ==
    /\ callee = "formatStatusText"
    /\ ret = <<>>
    /\ ret' = <<formatStatusText(arg)>>
    /\ UNCHANGED <<callee, arg, parserVars, acqVars, mgrVars>>

StatusSpec == StatusInit /\ [][CallFormatStatusText]_vars

(***************************************************************************)
(* parseCostUsage called on at most MaxCostLines lines of CostLinePool.    *)
(***************************************************************************)
MaxCostLines == 3

\* $5.50 / $20 spent
LineSpentUnits == <<W("$"), N(5), W("."), N(50), W("/"), W("$"), N(20), W("spent")>>
\* $1,234.50 / $2,000 spent
LineSpentThousands ==
    <<W("$"), N(1), W(","), N(234), W("."), N(50), W("/"),
      W("$"), N(2), W(","), N(0), W("spent")>>
\* $1,234,567.50 / $2,000,000 spent
LineSpentMillions ==
    <<W("$"), N(1), W(","), N(234), W(","), N(567), W("."), N(50), W("/"),
      W("$"), N(2), W(","), N(0), W(","), N(0), W("spent")>>

CostLinePool ==
    {LineExtraUsage, LineSpentUnits, LineSpentThousands, LineSpentMillions,
     LineSession, LineUsed14}

CostInit ==
    /\ callee = "parseCostUsage"
    /\ arg \in UNION {[1..k -> CostLinePool] : k \in 0..MaxCostLines}
    /\ ret = <<>>
    /\ ParserIdle
    /\ AcqIdle
    /\ ManagerIdle

CallParseCostUsage ==
    /\ callee = "parseCostUsage"
    /\ ret = <<>>
    /\ ret' = <<parseCostUsage(arg)>>
    /\ UNCHANGED <<callee, arg, parserVars, acqVars, mgrVars>>

CostSpec == CostInit /\ [][CallParseCostUsage]_vars

(***************************************************************************)
(* StatusBarManager.  The processes are the events the extension host      *)
(* delivers, one at a time: activation, the interval timer, the refresh    *)
(* command (a click on the status bar item), a change of configuration,    *)
(* the user's answer to an error dialog, and the continuation of refresh() *)
(* after `await readUsageData`.  A readUsageData that finds the workspace  *)
(* not trusted returns without spawning, and the continuation runs before  *)
(* any other event; one that spawns is awaited for as long as the          *)
(* acquisition lasts, COMMAND_TIMEOUT_MS at most.                          *)
(***************************************************************************)
REFRESH_THROTTLE_MS == 5000
\* getUpdateIntervalMs() with updateIntervalSeconds at its floor of 10
UpdateIntervalMs == 10000

MaxRefreshes == 3
MaxDialogs == 1
ClockStepMs == 5000
MaxClockSteps == 7

\* two readings of the quotas, to tell the results of two refreshes apart
DataSeen(percent) ==
    [account_type |-> "Max", email |-> "", captured_at |-> <<FakeNow>>,
     cost_usage |-> [spent |-> 0, budget |-> 0], auth_error |-> NoAuthError,
     quotas |-> <<[type |-> "session", percent_remaining |-> percent,
                   resets_at |-> <<FakeNow + 12000>>, time_remaining_seconds |-> 12000,
                   time_remaining_human |-> "3h20m"]>>]
\* what readUsageData returns once a subprocess was spawned
SpawnedOutcomes ==
    {[kind |-> "ok", message |-> "", data |-> DataSeen(86)],
     [kind |-> "ok", message |-> "", data |-> DataSeen(80)],
     [kind |-> "not_authenticated", message |-> MsgNoSubscription, data |-> NoData],
     [kind |-> "error", message |-> MsgTimeout, data |-> NoData]}
NotTrustedResult == [kind |-> "not_trusted", message |-> MsgNotTrusted, data |-> NoData]

\* buildTooltip(data): a text made of the data, ~/.claude.json and the stats cache
buildTooltip(data) == <<"Account", data.account_type, data.quotas>>

\* lines 148-152 of refresh(): the spinner
Spinner(text) ==
    IF text # "" THEN "$(sync~spin) " \o text ELSE "$(sync~spin) Claude: loading..."

\* lines 157-193 of refresh(): the fields after a result has arrived
DisplayTextAfter(res) == IF res.kind = "ok" THEN formatStatusText(res.data) ELSE ""
ItemAfter(res) ==
    CASE res.kind = "ok" ->
            [text |-> "$(cloud) " \o formatStatusText(res.data),
             tooltip |-> buildTooltip(res.data), backgroundColor |-> "undefined"]
      [] res.kind = "not_trusted" ->
            [text |-> "$(shield) Claude: workspace not trusted",
             tooltip |-> <<res.message, "Click to authorize">>,
             backgroundColor |-> "statusBarItem.warningBackground"]
      [] res.kind = "not_authenticated" ->
            [text |-> "$(key) Claude not authenticated",
             tooltip |-> <<res.message, "Click for details">>,
             backgroundColor |-> "statusBarItem.warningBackground"]
      [] OTHER ->
            [text |-> "$(warning) Claude Usage Error",
             tooltip |-> <<res.message, "Click for details">>,
             backgroundColor |-> "statusBarItem.warningBackground"]

\* refresh() up to its await.  With the workspace trusted readUsageData
\* spawns and the call stays pending; otherwise the rest of refresh() runs
\* at once with the not_trusted result.  `isTrusted` is the trust read.
refresh(isTrusted) ==
    /\ started < MaxRefreshes
    /\ started' = started + 1
    /\ IF isTrusted
       THEN /\ refreshes' = refreshes \cup {[id |-> started + 1, at |-> wallClock]}
            /\ statusBarItem' = [statusBarItem EXCEPT !.text = Spinner(lastDisplayText)]
            /\ UNCHANGED <<lastResult, lastDisplayText>>
       ELSE /\ lastResult' = NotTrustedResult
            /\ lastDisplayText' = DisplayTextAfter(NotTrustedResult)
            /\ statusBarItem' = ItemAfter(NotTrustedResult)
            /\ UNCHANGED refreshes

\* activate(): the command and the configuration listener are registered,
\* then refresh() and startTimer()
Activate ==
    /\ lifecycle = "constructed"
    /\ lifecycle' = "active"
    /\ refresh(trusted)
    /\ intervalTimer' = <<wallClock + UpdateIntervalMs>>
    /\ UNCHANGED <<wallClock, trusted, lastManualRefresh, dialogs>>
    /\ UNCHANGED <<parserVars, acqVars, callVars>>

\* the callback of setInterval
TimerTick ==
    /\ intervalTimer # <<>>
    /\ wallClock >= intervalTimer[1]
    /\ refresh(trusted)
    /\ intervalTimer' = <<intervalTimer[1] + UpdateIntervalMs>>
    /\ UNCHANGED <<lifecycle, wallClock, trusted, lastManualRefresh, dialogs>>
    /\ UNCHANGED <<parserVars, acqVars, callVars>>

\* onDidChangeConfiguration with a change that affects claudeUsage
ConfigChange ==
    /\ lifecycle = "active"
    /\ intervalTimer' = <<wallClock + UpdateIntervalMs>>
    /\ refresh(trusted)
    /\ UNCHANGED <<lifecycle, wallClock, trusted, lastManualRefresh, dialogs>>
    /\ UNCHANGED <<parserVars, acqVars, callVars>>

\* onClick() without the throttle
OnClickUnthrottled ==
    /\ lifecycle = "active"
    /\ IF lastResult.kind \notin {"undefined", "ok"}
       THEN /\ Len(dialogs) < MaxDialogs
            /\ dialogs' = Append(dialogs, lastResult.kind)
            /\ UNCHANGED <<lastManualRefresh, lastResult, lastDisplayText, statusBarItem,
                           refreshes, started>>
       ELSE /\ lastManualRefresh' = wallClock
            /\ refresh(trusted)
            /\ UNCHANGED dialogs
    /\ UNCHANGED <<lifecycle, wallClock, trusted, intervalTimer>>
    /\ UNCHANGED <<parserVars, acqVars, callVars>>

\* onClick(): the command claudeUsage.refresh
OnClick ==
    /\ lifecycle = "active"
    /\ IF lastResult.kind \notin {"undefined", "ok"}
       THEN /\ Len(dialogs) < MaxDialogs
            /\ dialogs' = Append(dialogs, lastResult.kind)
            /\ UNCHANGED <<lastManualRefresh, lastResult, lastDisplayText, statusBarItem,
                           refreshes, started>>
       ELSE IF wallClock - lastManualRefresh < REFRESH_THROTTLE_MS
       THEN UNCHANGED <<dialogs, lastManualRefresh, lastResult, lastDisplayText,
                        statusBarItem, refreshes, started>>
       ELSE /\ lastManualRefresh' = wallClock
            /\ refresh(trusted)
            /\ UNCHANGED dialogs
    /\ UNCHANGED <<lifecycle, wallClock, trusted, intervalTimer>>
    /\ UNCHANGED <<parserVars, acqVars, callVars>>

\* showErrorDetails() after its await: the user has answered the dialog
\* ("" stands for a dismissed dialog)
DialogAnswer ==
    /\ dialogs # <<>>
    /\ dialogs' = Tail(dialogs)
    /\ \E action \in {"Allow", "Retry", "Open Settings", "Cancel", ""} :
          IF Head(dialogs) = "not_trusted" /\ action = "Allow"
          THEN trusted' = TRUE /\ refresh(TRUE)
          ELSE IF Head(dialogs) # "not_trusted" /\ action = "Retry"
          THEN refresh(trusted) /\ UNCHANGED trusted
          ELSE UNCHANGED <<trusted, lastResult, lastDisplayText, statusBarItem,
                           refreshes, started>>
    /\ UNCHANGED <<lifecycle, wallClock, intervalTimer, lastManualRefresh>>
    /\ UNCHANGED <<parserVars, acqVars, callVars>>

\* refresh() after its await: readUsageData has returned
RefreshReturns ==
    /\ \E r \in refreshes, res \in SpawnedOutcomes :
          /\ refreshes' = refreshes \ {r}
          /\ lastResult' = res
          /\ lastDisplayText' = DisplayTextAfter(res)
          /\ statusBarItem' = ItemAfter(res)
    /\ UNCHANGED <<lifecycle, wallClock, trusted, intervalTimer, lastManualRefresh,
                   started, dialogs>>
    /\ UNCHANGED <<parserVars, acqVars, callVars>>

\* time passes; no acquisition outlasts its hard timeout
TimePasses ==
    /\ wallClock < StartMs + MaxClockSteps * ClockStepMs
    /\ \A r \in refreshes : wallClock + ClockStepMs - r.at <= COMMAND_TIMEOUT_MS
    /\ wallClock' = wallClock + ClockStepMs
    /\ UNCHANGED <<lifecycle, trusted, intervalTimer, lastManualRefresh, lastDisplayText,
                   lastResult, statusBarItem, refreshes, started, dialogs>>
    /\ UNCHANGED <<parserVars, acqVars, callVars>>

\* dispose(): stopTimer; the command and the listener go with the subscriptions
Dispose ==
    /\ lifecycle = "active"
    /\ lifecycle' = "disposed"
    /\ intervalTimer' = <<>>
    /\ UNCHANGED <<wallClock, trusted, lastManualRefresh, lastDisplayText, lastResult,
                   statusBarItem, refreshes, started, dialogs>>
    /\ UNCHANGED <<parserVars, acqVars, callVars>>

ManagerInit ==
    /\ ManagerConstructed
    /\ trusted \in BOOLEAN
    /\ NoCall
    /\ ParserIdle
    /\ AcqIdle

ManagerNext ==
    \/ Activate
    \/ TimerTick
    \/ ConfigChange
    \/ OnClick
    \/ DialogAnswer
    \/ RefreshReturns
    \/ TimePasses
    \/ Dispose

ManagerSpec == ManagerInit /\ [][ManagerNext]_vars

(***************************************************************************)
(* getUpdateIntervalMs called with claudeUsage.updateIntervalSeconds unset *)
(* (<<>>) or set to an integer between -MaxConfigured and MaxConfigured.   *)
(***************************************************************************)
MaxConfigured == 60
DefaultIntervalSeconds == 60
MinIntervalSeconds == 10

\* the interval without its floor
getUpdateIntervalMsUnbounded(setting) ==
    (IF setting = <<>> THEN DefaultIntervalSeconds ELSE setting[1]) * 1000
getUpdateIntervalMs(setting) ==
    Max(IF setting = <<>> THEN DefaultIntervalSeconds ELSE setting[1], MinIntervalSeconds) * 1000

IntervalInit ==
    /\ callee = "getUpdateIntervalMs"
    /\ arg \in {<<>>} \cup {<<n>> : n \in (0 - MaxConfigured)..MaxConfigured}
    /\ ret = <<>>
    /\ ParserIdle
    /\ AcqIdle
    /\ ManagerIdle

CallGetUpdateIntervalMs ==
    /\ callee = "getUpdateIntervalMs"
    /\ ret = <<>>
    /\ ret' = <<getUpdateIntervalMs(arg)>>
    /\ UNCHANGED <<callee, arg, parserVars, acqVars, mgrVars>>

IntervalSpec == IntervalInit /\ [][CallGetUpdateIntervalMs]_vars

\* the elements of a finite set of integers in increasing order
RECURSIVE Sorted(_)
Sorted(S) == IF S = {} THEN <<>> ELSE <<MinOfSet(S)>> \o Sorted(S \ {MinOfSet(S)})

\* a line carries "<digits> % <word>" with the word in Words
CarriesPercent(line, Words) ==
    \E i \in 1..Len(Toks(line)) :
        /\ IsNum(Toks(line)[i])
        /\ IsWord(Tok(Toks(line), i + 1), "%")
        /\ IsWordIn(Tok(Toks(line), i + 2), Words)

\* the percentage window of the label at line i: at most six lines, cut at the boundary
WindowOf(i) == i..(Min(i + PercentWindow, findNextSectionBoundary(Lines, i)) - 1)
\* the section of the label at line i
SectionOf(i) == i..(findNextSectionBoundary(Lines, i) - 1)

\* label lines whose window holds a percentage phrase worded by Words, in order
LabelsWithPercent(Words) ==
    With(Lines, LAMBDA ls :
        Sorted({i \in 1..Len(ls) :
                   /\ IsLabelLine(ls[i])
                   /\ \E j \in i..(Min(i + PercentWindow, findNextSectionBoundary(ls, i)) - 1) :
                          CarriesPercent(ls[j], Words)}))

\* percent_remaining as the first phrase of the window of label i words it
ExpectedPercent(i, Words) ==
    LET ls == Lines
        j == MinOfSet({k \in WindowOf(i) : CarriesPercent(ls[k], Words)})
        toks == Toks(ls[j])
        p == MinOfSet({k \in 1..Len(toks) :
                 IsNum(toks[k]) /\ IsWord(Tok(toks, k + 1), "%") /\ IsWordIn(Tok(toks, k + 2), Words)})
    IN  IF toks[p + 2].s = "used" THEN 100 - toks[p].n ELSE toks[p].n

\* a pattern of AUTH_PATTERNS occurs in the stripped transcript
AuthPhrase(p) == HasAnyWords(Toks(stripAnsi(rawOutput)), AUTH_PATTERNS[p].words)
HasAuthPhrase == \E p \in 1..Len(AUTH_PATTERNS) : AuthPhrase(p)
FirstAuthPhrase == MinOfSet({p \in 1..Len(AUTH_PATTERNS) : AuthPhrase(p)})

(***************************************************************************)
(* C1: the promise of runClaudeUsage is settled at most once.  The first   *)
(* call of settle, from 'close', 'error', the grace timer or the hard      *)
(* timer, settles it (resolved with the buffer, or rejected); once settled *)
(* the promise never changes again, and every later call of settle is a    *)
(* no-op: it leaves the latch, the promise and both timers as they were.   *)
(***************************************************************************)
C1_SettleOnce ==
    /\ [](settled <=> promise.state # "pending")
    /\ [][/\ promise.state # "pending" => promise' = promise
          /\ (~settled /\ settleCalls' # settleCalls) =>
                 /\ settled'
                 /\ promise'.state = "rejected" \/ promise' = Resolve(promise, output)
          /\ (settled /\ settleCalls' # settleCalls) =>
                 /\ settled'
                 /\ timer' = timer
                 /\ earlyKillTimer' = IF sigterms' # sigterms THEN "fired" ELSE earlyKillTimer
         ]_vars

\* resolved by the grace timer; the child then wrote more and closed, a second
\* call of settle, and the transcript delivered is still the one of the first
C1_Witness ==
    /\ settleCalls >= 2
    /\ child = "closed"
    /\ promise.state = "resolved"
    /\ promise.value # output
    /\ pc = "done"

(***************************************************************************)
(* C2: every acquisition eventually settles and readUsageData returns.     *)
(* The hard timer, when it settles the acquisition, has sent SIGTERM and   *)
(* rejected with "timeout", which readUsageData returns as kind error with *)
(* the message "claude /usage timed out after 30s."; that message is given *)
(* for no other failure.                                                   *)
(***************************************************************************)
C2_EventuallySettles ==
    /\ (pc = "awaiting") ~> (promise.state # "pending")
    /\ (pc = "awaiting") ~> (pc = "done")
    /\ []((promise.state = "rejected" /\ promise.error = "timeout") =>
              (timer = "fired" /\ sigterms >= 1 /\ clock >= COMMAND_TIMEOUT_MS))
    /\ []((pc = "done" /\ promise.state = "rejected" /\ promise.error = "timeout") =>
              readResult = [kind |-> "error", message |-> MsgTimeout, data |-> NoData])
    /\ []((pc = "done" /\ readResult.message = MsgTimeout) =>
              (promise.state = "rejected" /\ promise.error = "timeout"))

\* the child wrote nothing decisive and never exited: the hard timer settled
C2_Witness ==
    /\ pc = "done"
    /\ promise.state = "rejected" /\ promise.error = "timeout"
    /\ sigterms >= 1
    /\ readResult.kind = "error" /\ readResult.message = MsgTimeout

(***************************************************************************)
(* C3: after a chunk from either stream, an unsettled acquisition whose    *)
(* stripped buffer (stdout and stderr together) contains a                 *)
(* "<digits>% used|left" phrase has the grace timer armed.                 *)
(***************************************************************************)
C3_GraceArmedOnPhrase ==
    (pc = "awaiting" /\ ~settled /\ chunks > 0 /\ EarlyHeuristic(stripAnsi(output))) =>
        earlyKillTimer = "pending"

(***************************************************************************)
(* C4: when the claude executable cannot be found, readUsageData returns   *)
(* kind error with the "Claude CLI not found" message, on the PTY-wrapper  *)
(* path as well as on the direct spawn path.                               *)
(***************************************************************************)
C4_MissingExecutableReported ==
    (pc = "done" /\ env.trusted /\ ~env.claudeExists) =>
        (readResult.kind = "error" /\ readResult.message = MsgNotFound)

(***************************************************************************)
(* C5: a transcript in which a hard-auth phrase occurs anywhere is         *)
(* answered not_authenticated, with the message of the first matching      *)
(* entry of AUTH_PATTERNS in table order, also when quota sections are     *)
(* present.                                                                *)
(***************************************************************************)
C5_AuthPrecedence ==
    (ppc = "parsed" /\ HasAuthPhrase) =>
        /\ result.kind = "not_authenticated"
        /\ result.message = AUTH_PATTERNS[FirstAuthPhrase].message

\* an auth phrase in a transcript from which parseQuotas extracts a record
C5_Witness ==
    /\ ppc = "parsed"
    /\ HasAuthPhrase
    /\ Quotas # <<>>
    /\ result.kind = "not_authenticated"

(***************************************************************************)
(* C6: no ok outcome has an empty quota list.  When parseQuotas is reached *)
(* (no auth failure) and yields no record, the outcome is the error        *)
(* "No quota data found"; an ok outcome has at least one record.           *)
(***************************************************************************)
C6_NoEmptyOk ==
    ppc = "parsed" =>
        /\ (~HasAuthPhrase /\ Quotas = <<>>) =>
               (result.kind = "error" /\ result.message = MsgNoData)
        /\ result.kind = "ok" => Len(result.data.quotas) >= 1

\* a label with no percentage in its window
C6_Witness ==
    /\ ppc = "parsed"
    /\ \E i \in 1..Len(Lines) : IsLabelLine(Lines[i])
    /\ Quotas = <<>>
    /\ result.kind = "error"

(***************************************************************************)
(* C7: every record of parseQuotas has percent_remaining in 0..100, also   *)
(* for figures of three digits.                                            *)
(***************************************************************************)
C7_PercentInRange ==
    ppc = "parsed" =>
        \A k \in 1..Len(Quotas) : Quotas[k].percent_remaining \in 0..100

(***************************************************************************)
(* C8 as claimed: in each section the first line of the window carrying    *)
(* "N% used", "N% left" or "N% remaining" fixes the record (100 - N for    *)
(* used, N otherwise), and each of the three wordings produces a record.   *)
(***************************************************************************)
SpecWordings == {"used", "left", "remaining"}
C8_ThreeWordings ==
    ppc = "parsed" =>
        LET L == LabelsWithPercent(SpecWordings)
        IN  /\ Len(Quotas) = Len(L)
            /\ \A k \in 1..Len(L) :
                  Quotas[k].percent_remaining = ExpectedPercent(L[k], SpecWordings)

(***************************************************************************)
(* C8 amended: the first line of the window carrying "N% used" or          *)
(* "N% left" fixes the record, 100 - N for used and N for left, and each   *)
(* of the two wordings produces a record; "N% remaining" is no percentage  *)
(* phrase and a section with no other wording produces no record.          *)
(***************************************************************************)
CodeWordings == {"used", "left"}
C8_TwoWordings ==
    ppc = "parsed" =>
        LET L == LabelsWithPercent(CodeWordings)
            Q == Quotas
            ls == Lines
        IN  /\ Len(Q) = Len(L)
            /\ \A k \in 1..Len(L) :
                  /\ Q[k].percent_remaining = ExpectedPercent(L[k], CodeWordings)
                  /\ Q[k].type = QUOTA_LABELS[MinOfSet(LabelMatches(ls[L[k]]))].type

\* a section whose "30% remaining" line is passed over and whose "7% left" line
\* fixes the record
C8_Witness ==
    /\ ppc = "parsed"
    /\ \E k \in 1..Len(Quotas) :
          /\ Quotas[k].percent_remaining = 7
          /\ ExpectedPercent(LabelsWithPercent(SpecWordings)[k], SpecWordings) = 30

(***************************************************************************)
(* C9 as claimed: in every record time_remaining_human equals              *)
(* formatDuration(time_remaining_seconds), unresolved deadlines included.  *)
(***************************************************************************)
C9_HumanRecomputable ==
    ppc = "parsed" =>
        \A k \in 1..Len(Quotas) :
            Quotas[k].time_remaining_human = formatDuration(Quotas[k].time_remaining_seconds)

(***************************************************************************)
(* C9 amended: in every record whose deadline was resolved (resets_at not  *)
(* empty) time_remaining_human equals formatDuration of                    *)
(* time_remaining_seconds; a record whose deadline could not be resolved   *)
(* has the empty string and 0 seconds.                                     *)
(***************************************************************************)
C9_HumanOfResolved ==
    ppc = "parsed" =>
        LET Q == Quotas
        IN  \A k \in 1..Len(Q) :
                IF Q[k].resets_at # <<>>
                THEN Q[k].time_remaining_human = formatDuration(Q[k].time_remaining_seconds)
                ELSE Q[k].time_remaining_human = "" /\ Q[k].time_remaining_seconds = 0

\* a resolved absolute deadline rendered "3h20m"
C9_Witness ==
    /\ ppc = "parsed"
    /\ \E k \in 1..Len(Quotas) :
          /\ Quotas[k].resets_at # <<>>
          /\ Quotas[k].time_remaining_seconds = 12000
          /\ Quotas[k].time_remaining_human = "3h20m"

(***************************************************************************)
(* C10: when no line of a section carries a relative token or a clock      *)
(* time, the record is still emitted, with time_remaining_seconds = 0 and  *)
(* resets_at = "", and the outcome stays ok.                               *)
(***************************************************************************)
CarriesRelative(line) ==
    \E i \in 1..Len(Toks(line)) :
        IsNum(Toks(line)[i]) /\ IsWordIn(Tok(Toks(line), i + 1), DayWords \cup HourWords \cup MinWords)
CarriesClock(line) ==
    \E i \in 1..Len(Toks(line)) : IsWordIn(Toks(line)[i], AmPm)
NoDeadlineIn(i) ==
    LET ls == Lines
    IN  \A j \in SectionOf(i) : ~CarriesRelative(ls[j]) /\ ~CarriesClock(ls[j])

C10_UnresolvedStaysOk ==
    (ppc = "parsed" /\ ~HasAuthPhrase) =>
        LET L == LabelsWithPercent(CodeWordings)
        IN  \A k \in 1..Len(L) :
                NoDeadlineIn(L[k]) =>
                    /\ result.kind = "ok"
                    /\ Len(result.data.quotas) >= k
                    /\ result.data.quotas[k].time_remaining_seconds = 0
                    /\ result.data.quotas[k].resets_at = <<>>

C10_Witness ==
    /\ ppc = "parsed"
    /\ result.kind = "ok"
    /\ \E k \in 1..Len(result.data.quotas) :
          /\ NoDeadlineIn(LabelsWithPercent(CodeWordings)[k])
          /\ result.data.quotas[k].resets_at = <<>>

\* the unit names of a relative countdown
DayUnits == {"d", "day", "days"}
HourUnits == {"h", "hr", "hrs", "hour", "hours"}
MinuteUnits == {"m", "min", "mins", "minute", "minutes"}

\* the count a line gives for a unit: the number in front of its first
\* "<number> <unit>", 0 when the line names no such unit
UnitCount(line, Units) ==
    LET toks == Toks(line)
        I == {i \in 1..Len(toks) : IsNum(toks[i]) /\ IsWordIn(Tok(toks, i + 1), Units)}
    IN  IF I = {} THEN 0 ELSE toks[MinOfSet(I)].n
CarriesCountdown(line) ==
    \E i \in 1..Len(Toks(line)) :
        IsNum(Toks(line)[i])
            /\ IsWordIn(Tok(Toks(line), i + 1), DayUnits \cup HourUnits \cup MinuteUnits)
CountdownSeconds(line) ==
    UnitCount(line, DayUnits) * 86400 + UnitCount(line, HourUnits) * 3600
        + UnitCount(line, MinuteUnits) * 60

\* the transcript of the state is one section: a label line, then a body
\* that holds a percentage phrase
OneSection(ls) ==
    /\ Len(ls) >= 2
    /\ IsLabelLine(ls[1])
    /\ \A j \in 2..Len(ls) : ~IsLabelLine(ls[j])
    /\ \E j \in 2..Len(ls) : CarriesPercent(ls[j], CodeWordings)
\* the first "Resets"/"Renews" line of the lines ls, 0 when there is none
FirstResetLine(ls) ==
    LET R == {j \in 1..Len(ls) : IsResetLine(ls[j])}
    IN  IF R = {} THEN 0 ELSE MinOfSet(R)

(***************************************************************************)
(* C11: when the first "Resets"/"Renews" line of a section carries a       *)
(* relative countdown (any combination of day, hour and minute counts),    *)
(* the record has time_remaining_seconds = days*86400 + hours*3600 +       *)
(* minutes*60 whatever the clock reads, resets_at = now + that duration,   *)
(* and time_remaining_human = formatDuration of it.                        *)
(***************************************************************************)
C11_RelativeCountdown ==
    ppc = "parsed" =>
        LET ls == Lines
            r == FirstResetLine(ls)
        IN  (OneSection(ls) /\ r > 0 /\ CarriesCountdown(ls[IF r > 0 THEN r ELSE 1])) =>
                /\ result.kind = "ok"
                /\ Len(result.data.quotas) = 1
                /\ LET q == result.data.quotas[1]
                       total == CountdownSeconds(ls[r])
                   IN  /\ q.time_remaining_seconds = total
                       /\ q.resets_at = <<now + total>>
                       /\ q.time_remaining_human = formatDuration(total)

\* "Resets in 3d 2h" read at 20:30:17: 266400 seconds
C11_Witness ==
    /\ ppc = "parsed"
    /\ now = LateNow
    /\ Lines = <<LineSession, LineUsed14, LineResetsRel>>
    /\ result.kind = "ok"
    /\ result.data.quotas[1].time_remaining_seconds = 266400
    /\ result.data.quotas[1].resets_at = <<LateNow + 266400>>
    /\ result.data.quotas[1].time_remaining_human = "3d 2h"

\* a "Resets" line that states a clock time and nothing else: no countdown,
\* no month and day, and no zone or one Intl knows
HasDate(line) ==
    \E i \in 1..Len(Toks(line)) :
        IsMonthWord(Toks(line)[i]) /\ ~IsResetLine(<<Toks(line)[i]>>) /\ IsNum(Tok(Toks(line), i + 1))
ClockOnlyLine(line) ==
    /\ IsResetLine(line)
    /\ ~CarriesCountdown(line)
    /\ ~HasDate(line)
    /\ CarriesClock(line)
    /\ LineTz(Toks(line)) \in KnownZones \cup {""}

\* the clock time a line states, on the 24-hour clock, and the offset of the
\* zone it is stated in (the system's zone when the line names none)
StatedClock(line, loc) ==
    LET toks == Toks(line)
        a == MinOfSet({i \in 1..Len(toks) : IsWordIn(toks[i], AmPm)})
        hasMin == IsWord(Tok(toks, a - 2), ":")
        h == IF hasMin THEN Tok(toks, a - 3).n ELSE Tok(toks, a - 1).n
    IN  [hour |-> IF toks[a].s = "pm" /\ h < 12 THEN h + 12
                  ELSE IF toks[a].s = "am" /\ h = 12 THEN 0 ELSE h,
         minute |-> IF hasMin THEN Tok(toks, a - 1).n ELSE 0,
         off |-> IF LineTz(toks) = "" THEN loc ELSE TzOffsetMin(LineTz(toks))]

\* the instant at which the zone `off` reads hour:minute on the calendar day
\* it reads at instant t
SameDayOccurrence(hour, minute, off, t) ==
    (((t + off * 60) \div 86400) * 86400) + hour * 3600 + minute * 60 - off * 60

(***************************************************************************)
(* C12: when the deadline of a section is a clock time without a date, the *)
(* resolved instant is never in the past and time_remaining_seconds is     *)
(* greater than 0; if today's occurrence of that time, in the stated zone  *)
(* or else in local time, is not strictly after now, the deadline is       *)
(* tomorrow's occurrence.                                                  *)
(***************************************************************************)
C12_NeverInThePast ==
    ppc = "parsed" =>
        LET ls == Lines
            r == FirstResetLine(ls)
        IN  (OneSection(ls) /\ r > 0 /\ ClockOnlyLine(ls[IF r > 0 THEN r ELSE 1])) =>
                /\ result.kind = "ok"
                /\ LET q == result.data.quotas[1]
                       c == StatedClock(ls[r], localOffset)
                       today == SameDayOccurrence(c.hour, c.minute, c.off, now)
                   IN  /\ q.time_remaining_seconds > 0
                       /\ q.resets_at # <<>>
                       /\ q.resets_at[1] > now
                       /\ today <= now => q.resets_at[1] >= today + 86400

\* the same statement for a runtime whose hour cycle is h23
C12_NeverInThePastH23 == hourCycle = "h23" => C12_NeverInThePast

\* "Resets 8pm (America/Toronto)" read at 20:00:30 in Toronto: tomorrow's 8pm
C12_RolledOver ==
    /\ ppc = "parsed"
    /\ now = EightPmNow
    /\ Lines = <<LineSession, LineUsed14, LineResets8pm>>
    /\ result.kind = "ok"
    /\ result.data.quotas[1].time_remaining_seconds = 86400

\* "Resets 12:05am (America/Toronto)" read at 00:10 in Toronto by a runtime
\* that words the hour after midnight as 24: a deadline five minutes ago
C12_PastDeadline ==
    /\ ppc = "parsed"
    /\ hourCycle = "h24"
    /\ now = MidnightNow
    /\ Lines = <<LineSession, LineUsed14, LineResets1205am>>
    /\ result.kind = "ok"
    /\ result.data.quotas[1].time_remaining_seconds = 0
    /\ result.data.quotas[1].resets_at = <<MidnightNow - 300>>

\* a "Resets" line that states a month, a day and a clock time, the month
\* being one of the twelve, in no zone or one Intl knows
DatedLine(line) ==
    /\ IsResetLine(line)
    /\ ~CarriesCountdown(line)
    /\ CarriesClock(line)
    /\ \E i \in 1..Len(Toks(line)) :
          /\ IsNum(Tok(Toks(line), i + 1))
          /\ \E mo \in 1..12 : IsWord(Toks(line)[i], MonthNames[mo])
    /\ LineTz(Toks(line)) \in KnownZones \cup {""}
\* the month (1..12) and the day such a line states
StatedDate(line) ==
    LET toks == Toks(line)
        i == MinOfSet({j \in 1..Len(toks) : \E mo \in 1..12 : IsWord(toks[j], MonthNames[mo])})
    IN  [month |-> CHOOSE mo \in 1..12 : IsWord(toks[i], MonthNames[mo]),
         day |-> Tok(toks, i + 1).n]

\* seconds from `now`, read to the minute on the calendar of the line's
\* zone, to the civil time the line states on that calendar: today's or
\* else tomorrow's occurrence of a bare clock time, the stated day of the
\* current year otherwise; never below 0
CivilSecondsLeft(line, t, loc) ==
    LET c == StatedClock(line, loc)
        civilNow == ((t + c.off * 60) \div 60) * 60
        midnight == (civilNow \div 86400) * 86400
        clockSecs == c.hour * 3600 + c.minute * 60
    IN  IF DatedLine(line)
        THEN LET d == StatedDate(line)
                 y == CivilFromDays(civilNow \div 86400).year
             IN  Max(0, DaysFromCivil(y, d.month, d.day) * 86400 + clockSecs - civilNow)
        ELSE IF midnight + clockSecs > civilNow THEN midnight + clockSecs - civilNow
        ELSE midnight + 86400 + clockSecs - civilNow

(***************************************************************************)
(* C13: for an absolute deadline, with or without a date and with or       *)
(* without a zone, time_remaining_seconds is the difference in seconds     *)
(* between the target civil time and now read as civil time on the same    *)
(* calendar, floored at 0.                                                 *)
(***************************************************************************)
C13_CivilDifference ==
    ppc = "parsed" =>
        LET ls == Lines
            r == FirstResetLine(ls)
            line == ls[IF r > 0 THEN r ELSE 1]
        IN  (OneSection(ls) /\ r > 0 /\ (ClockOnlyLine(line) \/ DatedLine(line))) =>
                /\ result.kind = "ok"
                /\ result.data.quotas[1].time_remaining_seconds
                       = CivilSecondsLeft(line, now, localOffset)

\* the same statement for a runtime whose hour cycle is h23
C13_CivilDifferenceH23 == hourCycle = "h23" => C13_CivilDifference

\* at 2026-02-22 16:40 in Toronto, "Resets Feb 27 at 7pm (America/Toronto)"
\* is 440400 seconds away
C13_Example ==
    /\ ppc = "parsed"
    /\ now = FakeNow
    /\ Lines = <<LineSession, LineResetsFeb27, LineUsed14>>
    /\ result.kind = "ok"
    /\ result.data.quotas[1].time_remaining_seconds = 440400
    /\ result.data.quotas[1].time_remaining_human = "5d 2h"

\* the same line read at 00:10 in Toronto by a runtime that words the hour
\* after midnight as 24: 327000 seconds, a day short of 413400
C13_DayShort ==
    /\ ppc = "parsed"
    /\ hourCycle = "h24"
    /\ now = MidnightNow
    /\ Lines = <<LineSession, LineUsed14, LineResetsFeb27>>
    /\ result.kind = "ok"
    /\ result.data.quotas[1].time_remaining_seconds = 327000
    /\ CivilSecondsLeft(LineResetsFeb27, now, localOffset) = 413400

\* a line other than a percentage line that states a deadline
IsDeadlineLine(line) ==
    ~CarriesPercent(line, CodeWordings) /\ (CarriesCountdown(line) \/ CarriesClock(line))
\* the lines ls with lines j and j + 1 exchanged
SwapAt(ls, j) ==
    [i \in 1..Len(ls) |-> IF i = j THEN ls[j + 1] ELSE IF i = j + 1 THEN ls[j] ELSE ls[i]]
\* the label line of the section line j belongs to, 0 before the first label
LabelOf(ls, j) ==
    LET L == {i \in 1..j : IsLabelLine(ls[i])}
    IN  IF L = {} THEN 0 ELSE CHOOSE i \in L : \A k \in L : k <= i
\* positions j where a percentage line and a deadline line of one section,
\* neither of them a label line, stand next to each other
AdjacentPairs(ls) ==
    {j \in 2..(Len(ls) - 1) :
        /\ ~IsLabelLine(ls[j]) /\ ~IsLabelLine(ls[j + 1])
        /\ LabelOf(ls, j) > 0
        /\ \/ CarriesPercent(ls[j], CodeWordings) /\ IsDeadlineLine(ls[j + 1])
           \/ IsDeadlineLine(ls[j]) /\ CarriesPercent(ls[j + 1], CodeWordings)}
\* the fields of a record the statement is about
RecordFields(q) ==
    [type |-> q.type, percent_remaining |-> q.percent_remaining,
     time_remaining_seconds |-> q.time_remaining_seconds,
     time_remaining_human |-> q.time_remaining_human]
\* the records of the transcript whose lines are ls
RecordsOf(ls, t, loc) ==
    LET res == parseCliOutput(JoinLines(ls), t, loc)
    IN  [k \in 1..Len(res.data.quotas) |-> RecordFields(res.data.quotas[k])]

(***************************************************************************)
(* C14: exchanging the percentage line and the reset line of a section     *)
(* leaves the records unchanged, for every section and whichever of the    *)
(* two lines comes first.                                                  *)
(***************************************************************************)
C14_OrderIrrelevant ==
    ppc = "parsed" =>
        LET ls == Lines
            here == RecordsOf(ls, now, localOffset)
        IN  \A j \in AdjacentPairs(ls) : RecordsOf(SwapAt(ls, j), now, localOffset) = here

(***************************************************************************)
(* C14, amended: exchanging the percentage line and the reset line of a    *)
(* section leaves the records unchanged when both lines are among the      *)
(* five lines that follow the section's label line.                        *)
(***************************************************************************)
C14_OrderIrrelevantInWindow ==
    ppc = "parsed" =>
        LET ls == Lines
            here == RecordsOf(ls, now, localOffset)
        IN  \A j \in AdjacentPairs(ls) :
                j + 1 < LabelOf(ls, j) + PercentWindow =>
                    RecordsOf(SwapAt(ls, j), now, localOffset) = here

\* the reset line stands before the percentage line and the record is the
\* one of the other order
C14_Witness ==
    /\ ppc = "parsed"
    /\ Lines = <<LineSession, LineFiller, LineResets8pm, LineUsed14>>
    /\ now = FakeNow
    /\ result.kind = "ok"
    /\ result.data.quotas[1].percent_remaining = 86
    /\ result.data.quotas[1].time_remaining_seconds = 12000
    /\ RecordsOf(<<LineSession, LineFiller, LineUsed14, LineResets8pm>>, now, localOffset)
           = <<RecordFields(result.data.quotas[1])>>

\* the percentage line is the fifth line after the label and the reset line
\* the sixth: a record; the other way round there is none
C14_LostBySwap ==
    /\ ppc = "parsed"
    /\ Lines = <<LineSession, LineFiller, LineFiller, LineFiller, LineFiller,
                 LineUsed14, LineResets8pm>>
    /\ result.kind = "ok"
    /\ Len(result.data.quotas) = 1
    /\ parseCliOutput(JoinLines(SwapAt(Lines, 6)), now, localOffset).kind = "error"

\* a line carries "<digits> am|pm"
CarriesClockTime(line) ==
    \E i \in 1..Len(Toks(line)) : IsNum(Toks(line)[i]) /\ IsWordIn(Tok(Toks(line), i + 1), AmPm)
\* the lines of ls a deadline may be taken from when the "Resets"/"Renews"
\* lines give none: those with a clock time that are not percentage lines
FallbackLines(ls) ==
    {j \in 1..Len(ls) : CarriesClockTime(ls[j]) /\ ~CarriesPercent(ls[j], CodeWordings)}
\* no "Resets"/"Renews" line of ls states a countdown or a clock time
FirstPassFindsNothing(ls) ==
    \A j \in 1..Len(ls) :
        IsResetLine(ls[j]) => ~CarriesCountdown(ls[j]) /\ ~CarriesClockTime(ls[j])

(***************************************************************************)
(* C15: when no "Resets"/"Renews" line of a section yields a deadline, the *)
(* deadline is resolved from the first line of the section that carries an *)
(* am/pm clock time and is not a percentage line; it is never taken from a *)
(* percentage line, and without such a line the deadline is unresolved.    *)
(***************************************************************************)
C15_SecondPassSource ==
    ppc = "parsed" =>
        LET ls == Lines
            F == FallbackLines(ls)
        IN  (OneSection(ls) /\ FirstPassFindsNothing(ls)) =>
                /\ result.kind = "ok"
                /\ LET q == result.data.quotas[1]
                   IN  IF F = {}
                       THEN q.resets_at = <<>> /\ q.time_remaining_seconds = 0
                       ELSE LET abs == parseAbsoluteTime(ls[MinOfSet(F)], now, localOffset)
                            IN  /\ abs.found
                                /\ q.resets_at = abs.resets_at
                                /\ q.time_remaining_seconds = abs.time_remaining_seconds

\* "25% used 11pm" and then "Re sets 9pm", read at 16:40: the deadline is
\* 9pm, 15600 seconds away, not 11pm
C15_Witness ==
    /\ ppc = "parsed"
    /\ now = FakeNow
    /\ Lines = <<LineSession, LineUsed25At11pm, LineGarbled9pm>>
    /\ result.kind = "ok"
    /\ result.data.quotas[1].percent_remaining = 75
    /\ result.data.quotas[1].time_remaining_seconds = 15600
    /\ result.data.quotas[1].time_remaining_human = "4h20m"

(***************************************************************************)
(* C16: parseCliOutput never throws: every transcript, however malformed,  *)
(* gives one of the outcomes ok, not_authenticated, error.                 *)
(***************************************************************************)
C16_NeverThrows ==
    ppc = "parsed" => result.kind \in {"ok", "not_authenticated", "error"}

\* "Resets Foo 27 at 7pm": the month of new Date("foo 1, 2000") is NaN, the
\* target an invalid Date, and toISOString throws RangeError
C16_ThrowsOnMonth ==
    /\ ppc = "parsed"
    /\ Lines = <<LineSession, LineUsed14, LineResetsFoo27>>
    /\ result.kind = "throws"

\* "Resets 8pm (approx)": Intl.DateTimeFormat throws RangeError for the zone
C16_ThrowsOnZone ==
    /\ ppc = "parsed"
    /\ Lines = <<LineSession, LineUsed14, LineResets8pmApprox>>
    /\ result.kind = "throws"

StatusOrder == <<"session", "weekly", "opus", "sonnet">>
ShownName(type) == IF type \in {"opus", "sonnet"} THEN type \o " " ELSE ""
\* the position of the first record of a category in a list that has one
FirstOfType(quotas, type) ==
    CHOOSE i \in 1..Len(quotas) :
        quotas[i].type = type /\ \A j \in 1..(i - 1) : quotas[j].type # type
\* the text of the categories from position k of StatusOrder on; `first`
\* tells whether nothing has been shown yet
RECURSIVE ExpectedStatus(_, _, _)
ExpectedStatus(quotas, k, first) ==
    IF k > Len(StatusOrder) THEN ""
    ELSE IF \A i \in 1..Len(quotas) : quotas[i].type # StatusOrder[k]
    THEN ExpectedStatus(quotas, k + 1, first)
    ELSE LET q == quotas[FirstOfType(quotas, StatusOrder[k])]
         IN  (IF first THEN "" ELSE " | ")
                 \o ShownName(q.type) \o ToString(100 - q.percent_remaining) \o "% "
                 \o q.time_remaining_human
                 \o ExpectedStatus(quotas, k + 1, FALSE)

(***************************************************************************)
(* C18: formatStatusText shows the categories in the order session,        *)
(* weekly, opus, sonnet whatever the order of the records, each present    *)
(* category as "<100 - percent_remaining>% <time_remaining_human>", opus   *)
(* and sonnet under their name, joined with " | "; a category without a    *)
(* record is left out and of several records of a category the first is    *)
(* shown.                                                                  *)
(***************************************************************************)
C18_FixedOrder ==
    (callee = "formatStatusText" /\ ret # <<>>) =>
        ret[1] = ExpectedStatus(arg.quotas, 1, TRUE)

\* sonnet, then two session records, the first of them unresolved
C18_Witness ==
    /\ callee = "formatStatusText"
    /\ Len(arg.quotas) = 3
    /\ arg.quotas[1].type = "sonnet" /\ arg.quotas[1].percent_remaining = 86
    /\ arg.quotas[2].type = "session" /\ arg.quotas[2].percent_remaining = 7
    /\ arg.quotas[3].type = "session" /\ arg.quotas[3].percent_remaining = 86
    /\ ret = <<"93%  | sonnet 14% 3h20m">>

\* the amount of cents a written amount stands for: its groups of digits
\* read as one number, every separator dropped, and its two decimals
RECURSIVE GroupsValue(_)
GroupsValue(groups) ==
    IF Len(groups) = 0 THEN 0
    ELSE GroupsValue(SubSeq(groups, 1, Len(groups) - 1)) * 1000 + groups[Len(groups)]
WrittenCents(a) == GroupsValue(a.groups) * 100 + a.frac
\* the amount pair "<amount> / <amount> spent" a line states
StatesPair(line) == \E k \in 1..Len(Toks(line)) : CostAmountAt(Toks(line), k).ok
PairOf(line) ==
    CostAmountAt(Toks(line), MinOfSet({k \in 1..Len(Toks(line)) : CostAmountAt(Toks(line), k).ok}))
\* the "extra usage" lines of ls that an amount pair follows (or is on)
CostSections(ls) ==
    {i \in 1..Len(ls) :
        /\ HasWords(Toks(ls[i]), <<"extra", "usage">>)
        /\ \E j \in i..Len(ls) : StatesPair(ls[j])}

(***************************************************************************)
(* C19: parseCostUsage returns spent = 0 and budget = 0 when there is no   *)
(* "extra usage" section with an amount pair, and otherwise both amounts   *)
(* of the pair as decimals with all thousands separators stripped.         *)
(***************************************************************************)
C19_SeparatorsStripped ==
    (callee = "parseCostUsage" /\ ret # <<>>) =>
        LET S == CostSections(arg)
        IN  IF S = {} THEN ret[1] = [spent |-> 0, budget |-> 0]
            ELSE LET i == MinOfSet(S)
                     j == MinOfSet({k \in i..Len(arg) : StatesPair(arg[k])})
                     pair == PairOf(arg[j])
                 IN  ret[1] = [spent |-> WrittenCents(pair.spent),
                               budget |-> WrittenCents(pair.budget)]

\* the same statement for amounts below one million
C19_OneSeparatorStripped ==
    (callee = "parseCostUsage" /\ \A k \in 1..Len(arg) : arg[k] # LineSpentMillions) =>
        C19_SeparatorsStripped

\* "$1,234,567.50 / $2,000,000 spent" gives 1234 and 2000
C19_CutAtSecondSeparator ==
    /\ callee = "parseCostUsage"
    /\ arg = <<LineExtraUsage, LineSpentMillions>>
    /\ ret = <<[spent |-> 123400, budget |-> 200000]>>

(***************************************************************************)
(* C20: at most one "claude /usage" subprocess is in flight at any time:   *)
(* under any interleaving of the interval timer, the refresh command, the  *)
(* answers to error dialogs and configuration changes, no readUsageData    *)
(* is started while an earlier one has not completed.                      *)
(***************************************************************************)
C20_OneInFlight == Cardinality(refreshes) <= 1

\* two acquisitions in flight: the one activate() started and the one of a
\* click on the status bar before it returned
C20_TwoInFlight ==
    /\ Cardinality(refreshes) = 2
    /\ lastManualRefresh = StartMs
    /\ wallClock = StartMs
    /\ lastResult.kind = "undefined"

(***************************************************************************)
(* C21: parseCliOutput is pure and deterministic: its outcome is a         *)
(* function of the text and the clock, and a call changes nothing but its  *)
(* returned value.                                                         *)
(***************************************************************************)
C21_Pure ==
    ppc = "parsed" =>
        /\ result = parseCliOutput(rawOutput, now, localOffset)
        /\ debugFiles = NoDebugFiles

\* the outcome alone is a function of the text and the clock
C21_Deterministic ==
    ppc = "parsed" => result = parseCliOutput(rawOutput, now, localOffset)

\* a call has left the transcript in claude-usage-debug-raw.txt and its two
\* companions
C21_DebugFilesWritten ==
    /\ ppc = "parsed"
    /\ rawOutput = JoinLines(<<LineSession, LineUsed14>>)
    /\ result.kind = "ok"
    /\ debugFiles.raw = <<rawOutput>>
    /\ debugFiles.stripped # <<>>
    /\ debugFiles.lines # <<>>

(***************************************************************************)
(* C22: the polling interval is never below 10000 ms whatever integer      *)
(* claudeUsage.updateIntervalSeconds is set to, and is the setting times   *)
(* 1000 when the setting is at least 10.                                   *)
(***************************************************************************)
C22_IntervalFloor ==
    (callee = "getUpdateIntervalMs" /\ ret # <<>>) =>
        /\ ret[1] >= 10000
        /\ (arg # <<>> /\ arg[1] >= 10) => ret[1] = arg[1] * 1000

\* a setting of 3 seconds gives 10000 ms
C22_Witness ==
    /\ callee = "getUpdateIntervalMs"
    /\ arg = <<3>>
    /\ ret = <<10000>>

\* the end of the section of the label at line i of ls: the next line that
\* matches a category label or "extra usage", or the end of the lines
SectionEnd(ls, i) ==
    LET K == {k \in (i + 1)..Len(ls) : IsLabelLine(ls[k]) \/ COST_SECTION_RE(ls[k])}
    IN  IF K = {} THEN Len(ls) + 1 ELSE MinOfSet(K)
\* the label lines of ls with a percentage phrase among the first six lines
\* of their section, in order
RecordedLabels(ls) ==
    Sorted({i \in 1..Len(ls) :
               /\ IsLabelLine(ls[i])
               /\ \E j \in i..(Min(i + 6, SectionEnd(ls, i)) - 1) :
                      CarriesPercent(ls[j], CodeWordings)})

(***************************************************************************)
(* C23: a quota record is built from the lines of its own section only:    *)
(* the records are, label by label, the record the section of that label   *)
(* gives when it is read alone, the section running from the label line    *)
(* to the next line with a category label or "extra usage"; a percentage   *)
(* at or past that line, or past the sixth line of the section, gives no   *)
(* record.                                                                 *)
(***************************************************************************)
C23_OwnSectionOnly ==
    (ppc = "parsed" /\ result.kind = "ok") =>
        LET ls == Lines
            labels == RecordedLabels(ls)
            quotas == result.data.quotas
        IN  /\ Len(quotas) = Len(labels)
            /\ \A k \in 1..Len(labels) :
                   <<quotas[k]>> =
                       parseQuotas(SubSeq(ls, labels[k], SectionEnd(ls, labels[k]) - 1),
                                   now, localOffset).quotas

\* the session section has a percentage and no deadline, the weekly section
\* that follows has both: the session record has no deadline
C23_Witness ==
    /\ ppc = "parsed"
    /\ Lines = <<LineSession, LineUsed14, LineWeekly, LineResetsRel, LineLeft7>>
    /\ result.kind = "ok"
    /\ Len(result.data.quotas) = 2
    /\ result.data.quotas[1].type = "session"
    /\ result.data.quotas[1].resets_at = <<>>
    /\ result.data.quotas[2].type = "weekly"
    /\ result.data.quotas[2].time_remaining_seconds = 266400

(***************************************************************************)
(* C24: the grace timer is armed at most once per acquisition and later    *)
(* chunks never restart it; when it expires before anything else has       *)
(* settled the acquisition, the child is sent SIGTERM and the acquisition  *)
(* resolves with the buffer accumulated so far.                            *)
(***************************************************************************)
C24_GraceArmedOnce ==
    [][/\ earlyKillTimer # "undefined" =>
              /\ earlyKillTimer' = "pending" => earlyKillTimer = "pending"
              /\ graceDue' = graceDue
       /\ (earlyKillTimer = "pending" /\ earlyKillTimer' = "fired" /\ ~settled) =>
              /\ sigterms' = sigterms + 1
              /\ settled'
              /\ promise' = [state |-> "resolved", error |-> "", value |-> output]]_vars

\* the timer armed by the first chunk has expired after a second chunk that
\* arrived at its due time: one SIGTERM, resolved with both chunks
C24_Witness ==
    /\ earlyKillTimer = "fired"
    /\ graceDue = EARLY_KILL_DELAY_MS
    /\ clock = EARLY_KILL_DELAY_MS
    /\ chunks = 2
    /\ sigterms = 1
    /\ promise = [state |-> "resolved", error |-> "", value |-> ChunkLeft \o ChunkLeft]

(***************************************************************************)
(* C26: once the acquisition is settled neither timer is pending and the   *)
(* child is sent no further SIGTERM; no event after settlement arms a      *)
(* grace timer.                                                            *)
(***************************************************************************)
C26_QuietAfterSettle ==
    /\ [](settled => timer # "pending" /\ earlyKillTimer # "pending")
    /\ [][settled => sigterms' = sigterms]_vars

\* settle leaves neither timer pending
C26_SettleClearsTimers ==
    [][(~settled /\ settled') => timer' # "pending" /\ earlyKillTimer' # "pending"]_vars

\* after the timeout a chunk on stdout brought the phrase: the acquisition
\* is rejected and a grace timer is pending
C26_GraceArmedAfterTimeout ==
    /\ settled
    /\ promise.state = "rejected" /\ promise.error = "timeout"
    /\ timer = "fired"
    /\ earlyKillTimer = "pending"
    /\ graceDue = COMMAND_TIMEOUT_MS + EARLY_KILL_DELAY_MS

\* that grace timer has expired: a second SIGTERM
C26_SecondSigterm ==
    /\ settled
    /\ promise.error = "timeout"
    /\ earlyKillTimer = "fired"
    /\ sigterms = 2

\* the configuration a file holds: what JSON.parse gives, {} without one
HeldConfig(file) == IF file.kind = "json" THEN file.config ELSE EmptyConfig
\* the project entries of a configuration, by path
EntriesOf(config) == IF config.projects = <<>> THEN <<>> ELSE config.projects[1]
\* every project entry but that of `path` and every top-level key but
\* `projects` are in `after` what they are in `before`
OthersUnchanged(before, after, path) ==
    /\ after.numStartups = before.numStartups
    /\ DOMAIN EntriesOf(after) \ {path} = DOMAIN EntriesOf(before) \ {path}
    /\ \A p \in DOMAIN EntriesOf(before) \ {path} : EntriesOf(after)[p] = EntriesOf(before)[p]
\* a step in which trustWorkspace returns
TrustReturns == callee = "" /\ callee' = "trustWorkspace" /\ ret' = <<"returns">>

(***************************************************************************)
(* C25: readUsageData spawns no subprocess for a workspace that is not     *)
(* trusted and reports not_trusted; after trustWorkspace has returned the  *)
(* workspace is trusted, and every other project entry and every other     *)
(* top-level key of ~/.claude.json is what it was.                         *)
(***************************************************************************)
C25_TrustGate ==
    [][/\ (pc = "idle" /\ pc' # "idle"
              /\ ~isWorkspaceTrusted(claudeJson, FALSE, WorkspacePath)) =>
                  child' = "none" /\ readResult'.kind = "not_trusted"
       /\ TrustReturns =>
              /\ isWorkspaceTrusted(claudeJson', FALSE, WorkspacePath)
              /\ OthersUnchanged(HeldConfig(claudeJson), HeldConfig(claudeJson'),
                                 WorkspacePath)]_vars

\* the same with the frame condition left out
C25_GateAndTrusted ==
    [][/\ (pc = "idle" /\ pc' # "idle"
              /\ ~isWorkspaceTrusted(claudeJson, FALSE, WorkspacePath)) =>
                  child' = "none" /\ readResult'.kind = "not_trusted"
       /\ TrustReturns => isWorkspaceTrusted(claudeJson', FALSE, WorkspacePath)]_vars

\* trustWorkspace keeps the other entries and keys, or else has written
\* the file from {}, as it does when the read fails
C25_KeptOrRewritten ==
    [][TrustReturns =>
          \/ OthersUnchanged(HeldConfig(claudeJson), HeldConfig(claudeJson'), WorkspacePath)
          \/ claudeJson' = trustWorkspace(claudeJson, TRUE, WorkspacePath)]_vars

\* readUsageData has returned not_trusted without a child
C25_NotTrustedNoChild ==
    /\ pc = "done" /\ child = "none" /\ readResult.kind = "not_trusted"
    /\ claudeJson.kind = "json"
    /\ ~isWorkspaceTrusted(claudeJson, FALSE, WorkspacePath)

(***************************************************************************)
(* C27: in every record with a deadline, resets_at is the instant          *)
(* time_remaining_seconds after now, dated deadlines that lie before now   *)
(* included.                                                               *)
(***************************************************************************)
C27_ResetsAtIsNowPlusRemaining ==
    (ppc = "parsed" /\ result.kind = "ok") =>
        \A k \in 1..Len(result.data.quotas) :
            LET q == result.data.quotas[k]
            IN  q.resets_at # <<>> => q.resets_at[1] = now + q.time_remaining_seconds

\* the two fields agree whenever resets_at is not before now
C27_AgreeWhenNotPast ==
    (ppc = "parsed" /\ result.kind = "ok") =>
        \A k \in 1..Len(result.data.quotas) :
            LET q == result.data.quotas[k]
            IN  (q.resets_at # <<>> /\ q.resets_at[1] >= now) =>
                    q.resets_at[1] = now + q.time_remaining_seconds

\* "Resets Feb 20 at 7pm" read on February 22 at 16:40 in Toronto: nothing
\* remains and resets_at is 1 day 21 h 40 min before now
C27_PastDate ==
    /\ ppc = "parsed"
    /\ hourCycle = "h23"
    /\ now = FakeNow
    /\ Lines = <<LineSession, LineUsed14, LineResetsFeb20>>
    /\ result.kind = "ok"
    /\ result.data.quotas[1].time_remaining_seconds = 0
    /\ result.data.quotas[1].resets_at = <<FakeNow - 164400>>

\* the category of a label line: that of the first entry of QUOTA_LABELS it matches
CategoryOf(line) == QUOTA_LABELS[MinOfSet(LabelMatches(line))].type
\* the percentage line the label at line i of ls consumes: the first one
\* among the first six lines of its section
ConsumedLine(ls, i) ==
    MinOfSet({j \in i..(Min(i + 6, SectionEnd(ls, i)) - 1) : CarriesPercent(ls[j], CodeWordings)})
\* percent_remaining as a percentage line words it
RemainingOn(line) ==
    LET toks == Toks(line)
        p == MinOfSet({k \in 1..Len(toks) :
                 /\ IsNum(toks[k]) /\ IsWord(Tok(toks, k + 1), "%")
                 /\ IsWordIn(Tok(toks, k + 2), CodeWordings)})
    IN  IF toks[p + 2].s = "used" THEN 100 - toks[p].n ELSE toks[p].n

(***************************************************************************)
(* C28: the records are one per category-label line that has a percentage  *)
(* line to consume, in the order of the label lines, never more than       *)
(* there are label lines; each record carries the category of its label    *)
(* and the percentage of the line it consumed, and no percentage line is   *)
(* consumed by two labels.                                                 *)
(***************************************************************************)
C28_OneRecordPerLabel ==
    (ppc = "parsed" /\ result.kind = "ok") =>
        LET ls == Lines
            labels == RecordedLabels(ls)
            quotas == result.data.quotas
        IN  /\ Len(quotas) <= Cardinality({i \in 1..Len(ls) : IsLabelLine(ls[i])})
            /\ Len(quotas) = Len(labels)
            /\ \A k \in 1..Len(labels) :
                   /\ quotas[k].type = CategoryOf(ls[labels[k]])
                   /\ quotas[k].percent_remaining = RemainingOn(ls[ConsumedLine(ls, labels[k])])
            /\ \A k \in 1..(Len(labels) - 1) :
                   ConsumedLine(ls, labels[k]) < ConsumedLine(ls, labels[k + 1])

\* the session label has no percentage line before the weekly label: the
\* line "7% left" is consumed once, by the weekly label
C28_Witness ==
    /\ ppc = "parsed"
    /\ Lines = <<LineSession, LineResets8pm, LineWeekly, LineLeft7>>
    /\ result.kind = "ok"
    /\ Len(result.data.quotas) = 1
    /\ result.data.quotas[1].type = "weekly"
    /\ result.data.quotas[1].percent_remaining = 7

\* the refreshes started so far whose readUsageData has returned
Returned == (1..started) \ {q.id : q \in refreshes}

(***************************************************************************)
(* C29: whatever the interleaving of overlapping refreshes, a refresh      *)
(* that returns after a refresh started later than it has returned does    *)
(* not overwrite lastResult, lastDisplayText or the text, tooltip and      *)
(* colour of the status bar item: they stay those of the refresh started   *)
(* last.                                                                   *)
(***************************************************************************)
C29_LatestStartedWins ==
    [][\A r \in refreshes :
          (r \notin refreshes' /\ \E id \in Returned : id > r.id) =>
              UNCHANGED <<lastResult, lastDisplayText, statusBarItem>>]_vars

\* a refresh that returns sets the fields from its own result, whichever
\* refreshes have returned before it
C29_ReturnSetsFields ==
    [][\A r \in refreshes :
          r \notin refreshes' =>
              /\ lastResult' \in SpawnedOutcomes
              /\ lastDisplayText' = DisplayTextAfter(lastResult')
              /\ statusBarItem' = ItemAfter(lastResult')]_vars

\* the second refresh has returned with 80 % and the first is still pending
C29_EarlierStillPending ==
    /\ started = 2
    /\ refreshes = {[id |-> 1, at |-> StartMs]}
    /\ lastResult = [kind |-> "ok", message |-> "", data |-> DataSeen(80)]

\* onClick() starting a refresh or changing what the throttle leaves alone
ClickActs ==
    /\ OnClick
    /\ <<started, refreshes, lastManualRefresh, lastResult, statusBarItem>>'
           # <<started, refreshes, lastManualRefresh, lastResult, statusBarItem>>

(***************************************************************************)
(* C30: while the last result is ok or absent, a click less than 5000 ms   *)
(* after the last accepted manual refresh starts no refresh and leaves     *)
(* lastManualRefresh, lastResult and the status bar item as they are, so   *)
(* that two refreshes started by clicks are at least 5000 ms apart; while  *)
(* the last result is not ok, a click starts no refresh and only opens     *)
(* the error details.                                                      *)
(***************************************************************************)
C30_ManualRefreshThrottled ==
    /\ []((lastResult.kind \in {"undefined", "ok"}
              /\ wallClock - lastManualRefresh < 5000) => ~ENABLED ClickActs)
    /\ [](lastResult.kind \notin {"undefined", "ok"} => ~ENABLED ClickActs)
    /\ [][lastManualRefresh' # lastManualRefresh =>
              /\ lastResult.kind \in {"undefined", "ok"}
              /\ lastManualRefresh' = wallClock
              /\ lastManualRefresh' - lastManualRefresh >= 5000
              /\ started' = started + 1]_vars
    /\ [][Len(dialogs') > Len(dialogs) =>
              /\ lastResult.kind \notin {"undefined", "ok"}
              /\ dialogs' = Append(dialogs, lastResult.kind)
              /\ UNCHANGED <<started, refreshes, lastManualRefresh, lastResult,
                             statusBarItem>>]_vars

\* a second click was accepted 5000 ms after the first, and a further click
\* now would be within the throttle
C30_Witness ==
    /\ lifecycle = "active"
    /\ lastResult.kind = "ok"
    /\ lastManualRefresh = StartMs + 5000
    /\ wallClock = lastManualRefresh
    /\ started = 3
    /\ intervalTimer = <<StartMs + UpdateIntervalMs>>

====
